---- MODULE Spec2Model ----
(***************************************************************************)
(* hstdb: the history daemon.  Shell hooks send CommandStart and           *)
(* CommandFinished datagrams to a Unix datagram socket; a receiver thread  *)
(* forwards the raw datagrams over a bounded channel to a processor        *)
(* thread, which decodes them, pairs starts and finishes per session in a  *)
(* sled database and appends finished entries to per-host CSV index files. *)
(*                                                                         *)
(* Text (commands, hostnames, user names, paths) is a sequence of          *)
(* characters; a datagram is the sequence of the encoded fields.           *)
(***************************************************************************)
EXTENDS Integers, Sequences, FiniteSets, TLC

VARIABLES
    entries,            \* Db.entries: sled tree, key -> encoded CommandStart
    disabled_sessions,  \* Db.disabled_sessions: sled tree, key -> encoded true
    files,              \* the data directory: index file path -> rows
    stopping,           \* Server.stopping (AtomicBool)
    socket,             \* datagrams delivered to the bound socket, not yet read
    channel,            \* the flume channel between receiver and processor
    rpc,                \* receiver thread: position
    rbuf,               \* receiver thread: the datagram read by recv_from
    ppc,                \* processor thread: position
    hpc,                \* ctrl-c handler: position
    spc,                \* Server::run (the supervisor): position
    signals,            \* the termination signals delivered: the clock at each
    clock,              \* Utc::now() of the clients, one tick per message
    sent,               \* number of datagrams clients have sent
    log,                \* history: the datagrams process() has dispatched
                        \* (and the restarts of the daemon between them)
    pdata,              \* processor thread: the locals of a handler under way
    call                \* the last call of a Store or Filter function or of
                        \* zsh_add_history

vars == <<entries, disabled_sessions, files, stopping, socket, channel,
          rpc, rbuf, ppc, hpc, spc, signals, clock, sent, log, pdata, call>>

----------------------------------------------------------------------------
(* Bounds and input sets *)

\* messages dispatched in one behaviour of Spec
MaxMsgs == 4

\* datagrams the clients send in one behaviour of SpecDaemon
MaxDatagrams == 3

\* datagrams the clients send in one behaviour of SpecSignal
MaxSignalDatagrams == 2

\* termination signals delivered in one behaviour of SpecDaemon
MaxSignals == 1

\* datagrams the shell sends in one behaviour of SpecShell
MaxHooks == 4

\* datagrams the receiver forwards in one behaviour of SpecCrash
MaxForwards == 3

\* datagrams the shell of SpecHooks sends
MaxShellDatagrams == 3

\* lines of the history file and rows of the histdb database SpecImport
\* draws
MaxImportLines == 3

\* datagrams the peers of SpecPeer send
MaxPeerDatagrams == 3

\* rows in the data directory up to which SpecStore adds entries
MaxRows == 4

\* length of the commands SpecFilter draws
MaxCommandLen == 5

\* length of the hostnames SpecIndexPath draws
MaxHostnameLen == 4

\* flume::bounded(10_000)
ChannelCapacity == 10000

Sessions == {"s1", "s2"}

Results == {0, 1}

Pwd == <<"/", "t", "m", "p">>

User == <<"u", " ">>

\* command and hostname of the CommandStart messages the clients send
StartInputs ==
    { [command |-> <<"l", "s">>,                  hostname |-> <<"h">>],
      [command |-> <<"c", "d", "\\", "n", " ">>, hostname |-> <<"g", " ">>],
      [command |-> <<" ", "\n">>,                 hostname |-> <<"h">>],
      [command |-> <<>>,                          hostname |-> <<"h">>] }

----------------------------------------------------------------------------
(* Text helpers *)

IsWhitespace(c) == c \in {" ", "\n", "\r", "\t"}

RECURSIVE trim_end(_)
trim_end(s) ==
    IF s = <<>> THEN s
    ELSE IF IsWhitespace(s[Len(s)]) THEN trim_end(SubSeq(s, 1, Len(s) - 1))
    ELSE s

RECURSIVE trim_start(_)
trim_start(s) ==
    IF s = <<>> THEN s
    ELSE IF IsWhitespace(s[1]) THEN trim_start(Tail(s))
    ELSE s

trim(s) == trim_start(trim_end(s))

ends_with(s, suffix) ==
    /\ Len(s) >= Len(suffix)
    /\ SubSeq(s, Len(s) - Len(suffix) + 1, Len(s)) = suffix

strip_suffix(s, suffix) ==
    IF ends_with(s, suffix) THEN SubSeq(s, 1, Len(s) - Len(suffix)) ELSE s

----------------------------------------------------------------------------
(* Messages and the wire codec (bincode, standard configuration): the      *)
(* variant index, then the fields in declaration order.                    *)

Stop == [type |-> "Stop"]

Disable(uuid) == [type |-> "Disable", uuid |-> uuid]

Enable(uuid) == [type |-> "Enable", uuid |-> uuid]

CommandStart(data) == [type |-> "CommandStart", data |-> data]

CommandFinished(data) == [type |-> "CommandFinished", data |-> data]

Invalid == [type |-> "Invalid"]

\* struct CommandStart, fields in declaration order
encode_command_start(d) ==
    <<d.command, d.pwd, d.session_id, d.time_stamp, d.user, d.hostname>>

\* mutant: the last two fields are read in the other order
decode_command_start_swapped(b) ==
    [command |-> b[1], pwd |-> b[2], session_id |-> b[3],
     time_stamp |-> b[4], user |-> b[6], hostname |-> b[5]]

decode_command_start(b) ==
    [command |-> b[1], pwd |-> b[2], session_id |-> b[3],
     time_stamp |-> b[4], user |-> b[5], hostname |-> b[6]]

\* struct CommandFinished, fields in declaration order
encode_command_finished(d) == <<d.session_id, d.time_stamp, d.result>>

decode_command_finished(b) ==
    [session_id |-> b[1], time_stamp |-> b[2], result |-> b[3]]

encode(message) ==
    CASE message.type = "Stop" -> <<0>>
      [] message.type = "Disable" -> <<1, message.uuid>>
      [] message.type = "Enable" -> <<2, message.uuid>>
      [] message.type = "CommandStart" ->
            <<3>> \o encode_command_start(message.data)
      [] message.type = "CommandFinished" ->
            <<4>> \o encode_command_finished(message.data)

\* decode_from_slice returns the message and the number of bytes read; the
\* callers drop the count, so bytes after the message are ignored.
decode(data) ==
    IF data = <<>> THEN [ok |-> FALSE, message |-> Invalid]
    ELSE IF data[1] = 0 THEN [ok |-> TRUE, message |-> Stop]
    ELSE IF data[1] = 1 /\ Len(data) >= 2
        THEN [ok |-> TRUE, message |-> Disable(data[2])]
    ELSE IF data[1] = 2 /\ Len(data) >= 2
        THEN [ok |-> TRUE, message |-> Enable(data[2])]
    ELSE IF data[1] = 3 /\ Len(data) >= 7
        THEN [ok |-> TRUE,
              message |-> CommandStart(decode_command_start(Tail(data)))]
    ELSE IF data[1] = 4 /\ Len(data) >= 4
        THEN [ok |-> TRUE,
              message |-> CommandFinished(decode_command_finished(Tail(data)))]
    ELSE [ok |-> FALSE, message |-> Invalid]

----------------------------------------------------------------------------
(* The pending-session database (sled) *)

sled_contains_key(tree, key) == key \in DOMAIN tree

sled_insert(tree, key, value) ==
    [k \in DOMAIN tree \cup {key} |-> IF k = key THEN value ELSE tree[k]]

sled_remove(tree, key) == [k \in DOMAIN tree \ {key} |-> tree[k]]

\* Db::serialize of a session id (the key of both trees)
serialize_uuid(uuid) == <<uuid>>

\* Db::serialize(true)
serialize_true == <<1>>

deserialize_entry(data) == decode_command_start(data)

contains_entry(db, uuid) == sled_contains_key(db.entries, serialize_uuid(uuid))

is_session_disabled(db, uuid) ==
    sled_contains_key(db.disabled_sessions, serialize_uuid(uuid))

add_entry(db, entry) ==
    [db EXCEPT !.entries =
        sled_insert(db.entries, serialize_uuid(entry.session_id),
                    encode_command_start(entry))]

\* Ok(entry), or Err(EntryNotExist) when the key is absent
\* mutant: the start is read and left in the tree
remove_entry_reads(db, uuid) ==
    LET key == serialize_uuid(uuid) IN
    IF sled_contains_key(db.entries, key)
    THEN [db |-> db, err |-> "Ok",
          entry |-> deserialize_entry(db.entries[key])]
    ELSE [db |-> db, err |-> "EntryNotExist", entry |-> <<>>]

remove_entry(db, uuid) ==
    LET key == serialize_uuid(uuid) IN
    IF sled_contains_key(db.entries, key)
    THEN [db |-> [db EXCEPT !.entries = sled_remove(db.entries, key)],
          err |-> "Ok",
          entry |-> deserialize_entry(db.entries[key])]
    ELSE [db |-> db, err |-> "EntryNotExist", entry |-> <<>>]

\* mutant: the session is marked disabled, its pending start is kept
db_disable_session_keeps_entry(db, uuid) ==
    [db |-> [db EXCEPT !.disabled_sessions =
                sled_insert(db.disabled_sessions,
                            serialize_uuid(uuid), serialize_true)],
     err |-> "Ok"]

\* mutant: the pending start is removed first, and the error of a missing
\* start returns before the session is marked
db_disable_session_remove_first(db, uuid) ==
    LET removed == remove_entry(db, uuid) IN
    IF removed.err # "Ok"
    THEN [db |-> removed.db, err |-> removed.err]
    ELSE [db |-> [removed.db EXCEPT !.disabled_sessions =
                    sled_insert(removed.db.disabled_sessions,
                                serialize_uuid(uuid), serialize_true)],
          err |-> "Ok"]

\* mutant: a session without pending start is disabled without error
db_disable_session_lenient(db, uuid) ==
    LET inserted == [db EXCEPT !.disabled_sessions =
                        sled_insert(db.disabled_sessions,
                                    serialize_uuid(uuid), serialize_true)]
        removed == remove_entry(inserted, uuid)
    IN [db |-> removed.db, err |-> "Ok"]

db_disable_session(db, uuid) ==
    LET inserted == [db EXCEPT !.disabled_sessions =
                        sled_insert(db.disabled_sessions,
                                    serialize_uuid(uuid), serialize_true)]
        removed == remove_entry(inserted, uuid)
    IN [db |-> removed.db, err |-> removed.err]

\* mutant: the key is removed from the entries tree
db_enable_session_wrong_tree(db, uuid) ==
    [db |-> [db EXCEPT !.entries =
                sled_remove(db.entries, serialize_uuid(uuid))],
     err |-> "Ok"]

\* mutant: every session is enabled
db_enable_session_all(db, uuid) ==
    [db |-> [db EXCEPT !.disabled_sessions = <<>>], err |-> "Ok"]

db_enable_session(db, uuid) ==
    [db |-> [db EXCEPT !.disabled_sessions =
                sled_remove(db.disabled_sessions, serialize_uuid(uuid))],
     err |-> "Ok"]

----------------------------------------------------------------------------
(* Entry and the index store *)

BackslashN == <<"\\", "n">>

BackslashRN == <<"\\", "r", "\\", "n">>

\* the command of an Entry: the start's command without its trailing
\* whitespace and without one trailing escaped line break
entry_command(text) ==
    LET command == trim_end(text) IN
    IF ends_with(command, BackslashRN)
    THEN strip_suffix(command, BackslashRN)
    ELSE strip_suffix(command, BackslashN)

\* Entry::from_messages: user and hostname are trimmed
from_messages(start, finish) ==
    [time_finished |-> finish.time_stamp,
     time_start    |-> start.time_stamp,
     hostname      |-> trim(start.hostname),
     command       |-> entry_command(start.command),
     pwd           |-> start.pwd,
     result        |-> finish.result,
     session_id    |-> start.session_id,
     user          |-> trim(start.user)]

\* the rows of an index file: the header row the csv writer derives from
\* the field names, and one record per entry, fields in declaration order
HeaderRow ==
    [header |-> TRUE,
     record |-> <<"time_finished", "time_start", "hostname", "command",
                  "pwd", "result", "session_id", "user">>]

serialize_row(entry) ==
    [header |-> FALSE,
     record |-> <<entry.time_finished, entry.time_start, entry.hostname,
                  entry.command, entry.pwd, entry.result, entry.session_id,
                  entry.user>>]

\* the csv reader: a record back to an Entry, by position
deserialize_row(row) ==
    [time_finished |-> row.record[1], time_start |-> row.record[2],
     hostname |-> row.record[3], command |-> row.record[4],
     pwd |-> row.record[5], result |-> row.record[6],
     session_id |-> row.record[7], user |-> row.record[8]]

\* the data directory of the store
data_dir == <<"/", "d">>

\* Path::join: an absolute path takes the place of the base
path_join(base, path) ==
    IF path # <<>> /\ path[1] = "/" THEN path ELSE base \o <<"/">> \o path

\* Path::parent of a path that does not end in a slash (the root is <<>>)
parent(path) ==
    LET cut(p) ==
            LET slashes == {i \in DOMAIN p : p[i] = "/"}
            IN IF slashes = {} THEN <<>>
               ELSE SubSeq(p, 1, (CHOOSE i \in slashes :
                                    \A j \in slashes : j <= i) - 1)
    IN CHOOSE dir \in {cut(p) : p \in {path}} : TRUE

\* the directories there are once create_dir_all(data_dir) has returned:
\* the root and the data directory
is_dir(path) == path = <<>> \/ path = data_dir

\* data_dir.join(format!("{}.csv", hostname))
index_path(hostname) == path_join(data_dir, hostname \o <<".", "c", "s", "v">>)

path_exists(fs, path) == path \in DOMAIN fs

\* mutant: the file is opened with truncate
append_rows_truncating(fs, path, rows) ==
    [p \in DOMAIN fs \cup {path} |-> IF p = path THEN rows ELSE fs[p]]

\* OpenOptions append+create, then the rows the csv writer emits
append_rows(fs, path, rows) ==
    [p \in DOMAIN fs \cup {path} |->
        IF p = path
        THEN (IF path_exists(fs, path) THEN fs[path] ELSE <<>>) \o rows
        ELSE fs[p]]

\* OpenOptions::open fails where the directory of the file is missing
store_add_entry(fs, entry) ==
    LET file_path == index_path(entry.hostname)
        has_headers == ~path_exists(fs, file_path)
    IN IF ~is_dir(parent(file_path))
       THEN [fs |-> fs, err |-> "OpenIndexFile"]
       ELSE [fs |-> append_rows(fs, file_path,
                                (IF has_headers THEN <<HeaderRow>> ELSE <<>>)
                                    \o <<serialize_row(entry)>>),
             err |-> "Ok"]

\* mutant: every entry is written
store_add_always(fs, entry) == store_add_entry(fs, entry)

\* mutant: the hostname is tested instead of the command
store_add_checks_hostname(fs, entry) ==
    IF entry.hostname = <<>>
    THEN [fs |-> fs, err |-> "Ok"]
    ELSE store_add_entry(fs, entry)

store_add(fs, entry) ==
    IF entry.command = <<>>
    THEN [fs |-> fs, err |-> "Ok"]
    ELSE store_add_entry(fs, entry)

----------------------------------------------------------------------------
(* The order of text and of entries *)

\* the characters of the model in the order of their code points
Chars ==
    <<"\t", "\n", "\r", " ", "'", ".", "/", "1", "2", "\\", "c", "d", "e",
      "g", "h", "l", "m", "n", "p", "r", "s", "t", "u", "v", "x", "|">>

CharCode(c) == CHOOSE i \in DOMAIN Chars : Chars[i] = c

Codes(text) == [i \in DOMAIN text |-> CharCode(text[i])]

\* lexicographic order of sequences of numbers
RECURSIVE seq_lt(_, _)
seq_lt(a, b) ==
    IF b = <<>> THEN FALSE
    ELSE IF a = <<>> THEN TRUE
    ELSE IF a[1] # b[1] THEN a[1] < b[1]
    ELSE seq_lt(Tail(a), Tail(b))

\* str::cmp
text_lt(a, b) == seq_lt(Codes(a), Codes(b))

\* Uuid::to_string
uuid_text(uuid) == IF uuid = "s1" THEN <<"s", "1">> ELSE <<"s", "2">>

\* the fields of an Entry in the order in which they are compared
EntryKey(entry) ==
    <<<<entry.time_finished>>, <<entry.time_start>>, Codes(entry.hostname),
      Codes(entry.command), Codes(entry.pwd), <<entry.result>>,
      Codes(uuid_text(entry.session_id)), Codes(entry.user)>>

RECURSIVE key_lt(_, _)
key_lt(a, b) ==
    IF a = <<>> THEN FALSE
    ELSE IF a[1] # b[1] THEN seq_lt(a[1], b[1])
    ELSE key_lt(Tail(a), Tail(b))

\* Entry::cmp: the fields in declaration order, the first difference decides
entry_lt(a, b) == key_lt(EntryKey(a), EntryKey(b))

\* slice::sort is stable: an entry goes behind the entries not greater
RECURSIVE sort_insert(_, _)
sort_insert(sorted, entry) ==
    IF sorted = <<>> THEN <<entry>>
    ELSE IF entry_lt(entry, sorted[1]) THEN <<entry>> \o sorted
    ELSE <<sorted[1]>> \o sort_insert(Tail(sorted), entry)

RECURSIVE sort(_)
sort(list) ==
    IF list = <<>> THEN <<>>
    ELSE sort_insert(sort(SubSeq(list, 1, Len(list) - 1)), list[Len(list)])

----------------------------------------------------------------------------
(* Filter *)

None == <<>>

Some(value) == <<value>>

\* str::split: the pieces between the separators (one piece when there is
\* no separator, even for the empty text)
RECURSIVE split(_, _)
split(text, separator) ==
    IF \A i \in DOMAIN text : text[i] # separator THEN <<text>>
    ELSE LET i == CHOOSE k \in DOMAIN text :
                    /\ text[k] = separator
                    /\ \A j \in 1..(k - 1) : text[j] # separator
         IN <<SubSeq(text, 1, i - 1)>>
                \o split(SubSeq(text, i + 1, Len(text)), separator)

\* the characters of text before its first whitespace
RECURSIVE take_token(_)
take_token(text) ==
    IF text = <<>> \/ IsWhitespace(text[1]) THEN <<>>
    ELSE <<text[1]>> \o take_token(Tail(text))

\* split_whitespace().next()
first_token(text) ==
    IF trim_start(text) = <<>> THEN None
    ELSE Some(take_token(trim_start(text)))

\* mutant: any token of the command may be the literal
filter_command_any_token(pipeline, command) ==
    \E i \in DOMAIN pipeline :
        /\ i = 1 \/ IsWhitespace(pipeline[i - 1])
                 \/ pipeline[i - 1] = "|"
        /\ first_token(SubSeq(pipeline, i, Len(pipeline)))
                = Some(command)

filter_command(pipeline, command) ==
    LET pipe_commands == split(pipeline, "|")
    IN \E i \in DOMAIN pipe_commands :
            first_token(pipe_commands[i]) = Some(command)

\* Path::components of an absolute path
components(path) ==
    LET NotEmpty(name) == name # <<>>
    IN SelectSeq(split(path, "/"), NotEmpty)

\* Path::starts_with: whole components
path_starts_with(path, base) ==
    /\ Len(components(base)) <= Len(components(path))
    /\ SubSeq(components(path), 1, Len(components(base))) = components(base)

\* Regex::is_match for a pattern without metacharacters: the pattern occurs
\* somewhere in the text
regex_is_match(regex, text) ==
    \E i \in 0..(Len(text) - Len(regex)) :
        SubSeq(text, i + 1, i + Len(regex)) = regex

\* mutant: the failed option keeps the entries that failed
entry_passes_keeps_failed(filter, entry) ==
    /\ filter.command = None
            \/ filter_command(entry.command, filter.command[1])
    /\ filter.directory = None
            \/ IF filter.no_subdirs
               THEN components(entry.pwd) = components(filter.directory[1])
               ELSE path_starts_with(entry.pwd, filter.directory[1])
    /\ filter.command_text = None
            \/ regex_is_match(filter.command_text[1], entry.command)
    /\ filter.command_text_excluded = None
            \/ ~regex_is_match(filter.command_text_excluded[1], entry.command)
    /\ filter.session = None
            \/ regex_is_match(filter.session[1], uuid_text(entry.session_id))
    /\ ~filter.failed \/ entry.result # 0
    /\ filter.find_status = None \/ filter.find_status[1] = entry.result

\* the closures of the filter chain, in the order of the chain
entry_passes(filter, entry) ==
    /\ filter.command = None
            \/ filter_command(entry.command, filter.command[1])
    /\ filter.directory = None
            \/ IF filter.no_subdirs
               THEN components(entry.pwd) = components(filter.directory[1])
               ELSE path_starts_with(entry.pwd, filter.directory[1])
    /\ filter.command_text = None
            \/ regex_is_match(filter.command_text[1], entry.command)
    /\ filter.command_text_excluded = None
            \/ ~regex_is_match(filter.command_text_excluded[1], entry.command)
    /\ filter.session = None
            \/ regex_is_match(filter.session[1], uuid_text(entry.session_id))
    /\ ~filter.failed \/ entry.result = 0
    /\ filter.find_status = None \/ filter.find_status[1] = entry.result

\* Iterator::rev
reverse(seq) == [i \in DOMAIN seq |-> seq[Len(seq) + 1 - i]]

\* Iterator::take
take(seq, n) == SubSeq(seq, 1, IF n < Len(seq) THEN n ELSE Len(seq))

\* mutant: count keeps the first entries
filter_entries_first(filter, list) ==
    LET Passes(entry) == entry_passes(filter, entry)
        filtered == SelectSeq(list, Passes)
    IN IF filter.count > 0 THEN take(filtered, filter.count) ELSE filtered

filter_entries(filter, list) ==
    LET Passes(entry) == entry_passes(filter, entry)
        filtered == SelectSeq(list, Passes)
    IN IF filter.count > 0
       THEN reverse(take(reverse(filtered), filter.count))
       ELSE filtered

\* Filter::default()
DefaultFilter ==
    [hostname |-> None, directory |-> None, command |-> None,
     no_subdirs |-> FALSE, command_text |-> None,
     command_text_excluded |-> None, count |-> 0, session |-> None,
     failed |-> FALSE, find_status |-> None]

----------------------------------------------------------------------------
(* The index store: the read path *)

\* csv::Reader with has_headers (the default): the first row is taken as
\* the header row, whatever it holds; the records after it are deserialized
\* by the names of the header row, which fails unless these are the field
\* names, and a row of field names is no Entry
read_metadata(rows) ==
    IF rows = <<>> \/ Tail(rows) = <<>>
    THEN [err |-> "Ok", entries |-> <<>>]
    ELSE IF ~rows[1].header \/ \E i \in 2..Len(rows) : rows[i].header
    THEN [err |-> "ReadIndexFile", entries |-> <<>>]
    ELSE [err |-> "Ok",
          entries |-> [i \in 1..(Len(rows) - 1) |-> deserialize_row(rows[i + 1])]]

\* mutant: a file that is missing reads as a file without entries
read_log_file_or_nothing(fs, file_path) ==
    IF ~path_exists(fs, file_path)
    THEN [err |-> "Ok", entries |-> <<>>]
    ELSE read_metadata(fs[file_path])

read_log_file(fs, file_path) ==
    IF ~path_exists(fs, file_path)
    THEN [err |-> "OpenIndexFile", entries |-> <<>>]
    ELSE read_metadata(fs[file_path])

\* glob::glob(data_dir/*.csv): the matching paths in alphabetical order
RECURSIVE sorted_paths(_)
sorted_paths(paths) ==
    IF paths = {} THEN <<>>
    ELSE LET first == CHOOSE p \in paths :
                        \A q \in paths \ {p} : text_lt(p, q)
         IN <<first>> \o sorted_paths(paths \ {first})

glob_csv(fs) ==
    sorted_paths({path \in DOMAIN fs :
                    /\ parent(path) = data_dir
                    /\ ends_with(path, <<".", "c", "s", "v">>)})

\* Iterator::flatten
RECURSIVE flatten(_)
flatten(seqs) ==
    IF seqs = <<>> THEN <<>> ELSE Head(seqs) \o flatten(Tail(seqs))

\* the entries of the files get_entries reads, before they are sorted
read_entries(fs, filter) ==
    LET index_paths == IF filter.hostname # None
                       THEN <<index_path(filter.hostname[1])>>
                       ELSE glob_csv(fs)
        reads == [i \in DOMAIN index_paths |-> read_log_file(fs, index_paths[i])]
    IN IF \E i \in DOMAIN reads : reads[i].err # "Ok"
       THEN [err |-> reads[CHOOSE i \in DOMAIN reads :
                            /\ reads[i].err # "Ok"
                            /\ \A j \in 1..(i - 1) : reads[j].err = "Ok"].err,
             entries |-> <<>>]
       ELSE [err |-> "Ok",
             entries |-> flatten([i \in DOMAIN reads |-> reads[i].entries])]

\* mutant: the entries are filtered in the order in which they were read
get_entries_unsorted(fs, filter) ==
    LET read == read_entries(fs, filter)
    IN IF read.err # "Ok" THEN read
       ELSE [err |-> "Ok", entries |-> filter_entries(filter, read.entries)]

get_entries(fs, filter) ==
    LET read == read_entries(fs, filter)
    IN IF read.err # "Ok" THEN read
       ELSE [err |-> "Ok",
             entries |-> filter_entries(filter, sort(read.entries))]

----------------------------------------------------------------------------
(* The message handlers of the processor.  Each returns the database and   *)
(* the data directory it leaves behind and its Result.                     *)

\* mutant: the start is stored without looking for a pending one
command_start_overwrites(db, data) ==
    IF is_session_disabled(db, data.session_id)
    THEN [db |-> db, err |-> "DisabledSession"]
    ELSE [db |-> add_entry(db, data), err |-> "Ok"]

\* mutant: the start is stored without looking at the disabled sessions
command_start_ignores_disabled(db, data) ==
    IF contains_entry(db, data.session_id)
    THEN [db |-> db, err |-> "SessionCommandAlreadyStarted"]
    ELSE [db |-> add_entry(db, data), err |-> "Ok"]

\* mutant: the rejected start takes the place of the pending one
command_start_replaces(db, data) ==
    IF contains_entry(db, data.session_id)
    THEN [db |-> add_entry(db, data), err |-> "SessionCommandAlreadyStarted"]
    ELSE IF is_session_disabled(db, data.session_id)
    THEN [db |-> db, err |-> "DisabledSession"]
    ELSE [db |-> add_entry(db, data), err |-> "Ok"]

command_start(db, data) ==
    IF contains_entry(db, data.session_id)
    THEN [db |-> db, err |-> "SessionCommandAlreadyStarted"]
    ELSE IF is_session_disabled(db, data.session_id)
    THEN [db |-> db, err |-> "DisabledSession"]
    ELSE [db |-> add_entry(db, data), err |-> "Ok"]

\* mutant: the pending start is read but stays in the entries tree
command_finished_keeps_start(db, fs, data) ==
    IF is_session_disabled(db, data.session_id)
    THEN [db |-> db, fs |-> fs, err |-> "DisabledSession"]
    ELSE IF ~contains_entry(db, data.session_id)
    THEN [db |-> db, fs |-> fs, err |-> "SessionCommandNotStarted"]
    ELSE LET removed == remove_entry(db, data.session_id)
             entry == from_messages(removed.entry, data)
             added == store_add(fs, entry)
         IN [db |-> db, fs |-> added.fs,
             err |-> IF added.err # "Ok" THEN "AddStore" ELSE "Ok"]

\* mutant: the start is removed without looking whether one is pending
command_finished_unchecked(db, fs, data) ==
    IF is_session_disabled(db, data.session_id)
    THEN [db |-> db, fs |-> fs, err |-> "DisabledSession"]
    ELSE LET removed == remove_entry(db, data.session_id)
             entry == from_messages(removed.entry, data)
             added == store_add(fs, entry)
         IN IF removed.err # "Ok"
            THEN [db |-> removed.db, fs |-> fs, err |-> "RemoveDbEntry"]
            ELSE [db |-> removed.db, fs |-> added.fs,
                  err |-> IF added.err # "Ok" THEN "AddStore" ELSE "Ok"]

\* mutant: the start stays pending when the store fails
command_finished_restores_start(db, fs, data) ==
    IF is_session_disabled(db, data.session_id)
    THEN [db |-> db, fs |-> fs, err |-> "DisabledSession"]
    ELSE IF ~contains_entry(db, data.session_id)
    THEN [db |-> db, fs |-> fs, err |-> "SessionCommandNotStarted"]
    ELSE LET removed == remove_entry(db, data.session_id)
             entry == from_messages(removed.entry, data)
             added == store_add(fs, entry)
         IN IF removed.err # "Ok"
            THEN [db |-> removed.db, fs |-> fs, err |-> "RemoveDbEntry"]
            ELSE IF added.err # "Ok"
            THEN [db |-> db, fs |-> fs, err |-> "AddStore"]
            ELSE [db |-> removed.db, fs |-> added.fs, err |-> "Ok"]

command_finished(db, fs, data) ==
    IF is_session_disabled(db, data.session_id)
    THEN [db |-> db, fs |-> fs, err |-> "DisabledSession"]
    ELSE IF ~contains_entry(db, data.session_id)
    THEN [db |-> db, fs |-> fs, err |-> "SessionCommandNotStarted"]
    ELSE LET removed == remove_entry(db, data.session_id)
             entry == from_messages(removed.entry, data)
             added == store_add(fs, entry)
         IN IF removed.err # "Ok"
            THEN [db |-> removed.db, fs |-> fs, err |-> "RemoveDbEntry"]
            ELSE [db |-> removed.db, fs |-> added.fs,
                  err |-> IF added.err # "Ok" THEN "AddStore" ELSE "Ok"]

server_disable_session(db, uuid) == db_disable_session(db, uuid)

server_enable_session(db, uuid) == db_enable_session(db, uuid)

\* mutant: bytes that are no message end the processor as a Stop does
process_stops_on_garbage(db, fs, data) ==
    LET decoded == decode(data)
        message == decoded.message
    IN  IF ~decoded.ok
        THEN [db |-> db, fs |-> fs, stop |-> TRUE, err |-> "DeserializeMessage"]
        ELSE IF message.type = "Stop"
        THEN [db |-> db, fs |-> fs, stop |-> TRUE, err |-> "Ok"]
        ELSE IF message.type = "CommandStart"
        THEN LET r == command_start(db, message.data)
             IN [db |-> r.db, fs |-> fs, stop |-> FALSE, err |-> r.err]
        ELSE IF message.type = "CommandFinished"
        THEN LET r == command_finished(db, fs, message.data)
             IN [db |-> r.db, fs |-> r.fs, stop |-> FALSE, err |-> r.err]
        ELSE IF message.type = "Disable"
        THEN LET r == server_disable_session(db, message.uuid)
             IN [db |-> r.db, fs |-> fs, stop |-> FALSE, err |-> r.err]
        ELSE LET r == server_enable_session(db, message.uuid)
             IN [db |-> r.db, fs |-> fs, stop |-> FALSE, err |-> r.err]

\* Server::process after the channel receive: decode and dispatch.  stop
\* tells the caller to set the stop flag and to send the self-Stop.
process(db, fs, data) ==
    LET decoded == decode(data)
        message == decoded.message
    IN  IF ~decoded.ok
        THEN [db |-> db, fs |-> fs, stop |-> FALSE, err |-> "DeserializeMessage"]
        ELSE IF message.type = "Stop"
        THEN [db |-> db, fs |-> fs, stop |-> TRUE, err |-> "Ok"]
        ELSE IF message.type = "CommandStart"
        THEN LET r == command_start(db, message.data)
             IN [db |-> r.db, fs |-> fs, stop |-> FALSE, err |-> r.err]
        ELSE IF message.type = "CommandFinished"
        THEN LET r == command_finished(db, fs, message.data)
             IN [db |-> r.db, fs |-> r.fs, stop |-> FALSE, err |-> r.err]
        ELSE IF message.type = "Disable"
        THEN LET r == server_disable_session(db, message.uuid)
             IN [db |-> r.db, fs |-> fs, stop |-> FALSE, err |-> r.err]
        ELSE LET r == server_enable_session(db, message.uuid)
             IN [db |-> r.db, fs |-> fs, stop |-> FALSE, err |-> r.err]

----------------------------------------------------------------------------
(* State *)

EmptyTree == [k \in {} |-> <<>>]

\* no handler is under way
NoData == [data |-> <<>>, entry |-> <<>>]

\* no Store or Filter function has been called
NoCall == [op |-> "none"]

Db == [entries |-> entries, disabled_sessions |-> disabled_sessions]

dbvars == <<entries, disabled_sessions, files>>

threadvars == <<channel, rpc, rbuf, ppc, hpc, spc, signals, sent, pdata, call>>

\* Builder::build on empty cache and data directories, then Server::run up
\* to wait_group.wait(): both threads at the head of their loops
Init ==
    /\ entries = EmptyTree
    /\ disabled_sessions = EmptyTree
    /\ files = EmptyTree
    /\ stopping = FALSE
    /\ socket = <<>>
    /\ channel = <<>>
    /\ rpc = "check"
    /\ rbuf = <<>>
    /\ ppc = "check"
    /\ hpc = "idle"
    /\ spc = "wait"
    /\ signals = <<>>
    /\ clock = 1
    /\ sent = 0
    /\ log = <<>>
    /\ pdata = NoData
    /\ call = NoCall

\* the daemon's socket accepts datagrams while the receiver thread, which
\* owns the UnixDatagram, has not ended and run() has not removed the file
socket_open == rpc # "done" /\ spc # "returned"

\* mutant: the datagram is never queued
client_send_lost(sock, message) == sock

\* Client::send: Ok and the datagram is queued on the socket, or
\* Err(ConnectSocket) and nothing is sent
client_send(sock, message) ==
    IF socket_open THEN Append(sock, encode(message)) ELSE sock

\* mutant: every call of process() writes the flag
DispatchWritesFlag(data) ==
    \E r \in {process(Db, files, data)} :
    /\ entries' = r.db.entries
    /\ disabled_sessions' = r.db.disabled_sessions
    /\ files' = r.fs
    /\ stopping' = r.stop
    /\ socket' = IF r.stop THEN client_send(socket, Stop) ELSE socket
    /\ log' = Append(log, [message |-> decode(data).message, err |-> r.err])

\* what one call of process() does with the datagram it received
Dispatch(data) ==
    \E r \in {process(Db, files, data)} :
    /\ entries' = r.db.entries
    /\ disabled_sessions' = r.db.disabled_sessions
    /\ files' = r.fs
    /\ stopping' = (stopping \/ r.stop)
    /\ socket' = IF r.stop THEN client_send(socket, Stop) ELSE socket
    /\ log' = Append(log, [message |-> decode(data).message, err |-> r.err])

----------------------------------------------------------------------------
(* Spec: the processor dispatching the messages of the clients, one        *)
(* process() call per action, in the order of delivery.                    *)

new_command_start(uuid, in) ==
    [command |-> in.command, pwd |-> Pwd, session_id |-> uuid,
     time_stamp |-> clock, user |-> User, hostname |-> in.hostname]

new_command_finished(uuid, result) ==
    [session_id |-> uuid, time_stamp |-> clock, result |-> result]

\* the datagram goes from the client through socket and channel to process()
Delivered == clock' = clock + 1 /\ UNCHANGED threadvars

HandleCommandStart ==
    \E uuid \in Sessions, in \in StartInputs :
        /\ Len(log) < MaxMsgs
        /\ Dispatch(encode(CommandStart(new_command_start(uuid, in))))
        /\ Delivered

HandleCommandFinished ==
    \E uuid \in Sessions, result \in Results :
        /\ Len(log) < MaxMsgs
        /\ Dispatch(encode(CommandFinished(new_command_finished(uuid, result))))
        /\ Delivered

HandleDisable ==
    \E uuid \in Sessions :
        /\ Len(log) < MaxMsgs
        /\ Dispatch(encode(Disable(uuid)))
        /\ Delivered

HandleEnable ==
    \E uuid \in Sessions :
        /\ Len(log) < MaxMsgs
        /\ Dispatch(encode(Enable(uuid)))
        /\ Delivered

HandleStop ==
    /\ Len(log) < MaxMsgs
    /\ Dispatch(encode(Stop))
    /\ Delivered

Next ==
    \/ HandleCommandStart
    \/ HandleCommandFinished
    \/ HandleDisable
    \/ HandleEnable
    \/ HandleStop

Spec == Init /\ [][Next]_vars

----------------------------------------------------------------------------
(* SpecRestart: Spec, and the daemon that a dispatched Stop has ended      *)
(* being built and run again on the same cache and data directories.       *)

\* mutant: the trees are created empty
db_new_fresh(cache) ==
    [entries |-> EmptyTree, disabled_sessions |-> EmptyTree]

\* db::new: sled::open of "entries" and of "disabled_sessions" in the cache
\* directory give the two trees as the last daemon left them
db_new(cache) ==
    [entries |-> cache.entries, disabled_sessions |-> cache.disabled_sessions]

\* the place of a restart in the history
RestartMark == [message |-> [type |-> "Restart"], err |-> "Ok"]

\* run() returns after the Stop; Builder::build opens the database, binds a
\* new socket and clears the stop flag; the index files stay as they are
Restart ==
    /\ Len(log) < MaxMsgs
    /\ stopping
    /\ LET db == db_new(Db)
       IN /\ entries' = db.entries
          /\ disabled_sessions' = db.disabled_sessions
    /\ files' = files
    /\ stopping' = FALSE
    /\ socket' = <<>>
    /\ log' = Append(log, RestartMark)
    /\ UNCHANGED <<clock, threadvars>>

RestartNext ==
    \/ Next
    \/ Restart

SpecRestart == Init /\ [][RestartNext]_vars

----------------------------------------------------------------------------
(* SpecDaemon: the threads of Server::run.  The receiver and the processor *)
(* loop until they see the stop flag; the ctrl-c handler and the Stop      *)
(* message set it; run() waits for both threads and removes the socket.    *)

\* the messages the clients send to the running daemon
ClientMessages ==
    { Stop,
      CommandStart(new_command_start("s1", [command |-> <<"l", "s">>,
                                            hostname |-> <<"h">>])),
      CommandFinished(new_command_finished("s1", 0)) }

ClientSend ==
    \E message \in ClientMessages :
        /\ sent < MaxDatagrams
        /\ socket_open
        /\ socket' = Append(socket, encode(message))
        /\ sent' = sent + 1
        /\ clock' = clock + 1
        /\ UNCHANGED <<dbvars, stopping, channel, rpc, rbuf, ppc, hpc, spc,
                       signals, log, pdata, call>>

\* start_receiver: `if stopping.load() { break; }`
ReceiverCheck ==
    /\ rpc = "check"
    /\ rpc' = IF stopping THEN "drop" ELSE "recv_from"
    /\ UNCHANGED <<dbvars, stopping, socket, channel, rbuf, ppc, hpc, spc,
                   signals, clock, sent, log,
                   pdata, call>>

\* receive: socket.recv_from blocks until a datagram is there
ReceiverRecvFrom ==
    /\ rpc = "recv_from"
    /\ socket # <<>>
    /\ rbuf' = Head(socket)
    /\ socket' = Tail(socket)
    /\ rpc' = "send"
    /\ UNCHANGED <<dbvars, stopping, channel, ppc, hpc, spc, signals, clock,
                   sent, log,
                   pdata, call>>

\* mutant: a read error ends the receiver
ReceiverRecvErrorExits ==
    /\ rpc = "recv_from"
    /\ rpc' = "drop"
    /\ UNCHANGED <<dbvars, stopping, socket, channel, rbuf, ppc, hpc, spc,
                   signals, clock, sent, log,
                   pdata, call>>

\* receive: recv_from fails, Err(ReceiveFromSocket) is logged, the loop goes on
ReceiverRecvError ==
    /\ rpc = "recv_from"
    /\ rpc' = "check"
    /\ UNCHANGED <<dbvars, stopping, socket, channel, rbuf, ppc, hpc, spc,
                   signals, clock, sent, log,
                   pdata, call>>

\* mutant: the datagram is put at the head of the channel
ReceiverSendFront ==
    /\ rpc = "send"
    /\ ppc = "done" \/ Len(channel) < ChannelCapacity
    /\ channel' = IF ppc = "done" THEN channel ELSE <<rbuf>> \o channel
    /\ rbuf' = <<>>
    /\ rpc' = "check"
    /\ UNCHANGED <<dbvars, stopping, socket, ppc, hpc, spc, signals, clock,
                   sent, log, pdata, call>>

\* mutant: the datagram is dropped while the processor has not yet taken
\* the datagram before it
ReceiverSendOrDrop ==
    /\ rpc = "send"
    /\ ppc = "done" \/ Len(channel) < ChannelCapacity
    /\ channel' = IF ppc = "done" \/ channel # <<>> THEN channel
                  ELSE Append(channel, rbuf)
    /\ rbuf' = <<>>
    /\ rpc' = "check"
    /\ UNCHANGED <<dbvars, stopping, socket, ppc, hpc, spc, signals, clock,
                   sent, log, pdata, call>>

\* receive: data_sender.send blocks while the channel is full and fails with
\* Err(SendBuffer) once the processor has dropped the Receiver end
ReceiverSend ==
    /\ rpc = "send"
    /\ ppc = "done" \/ Len(channel) < ChannelCapacity
    /\ channel' = IF ppc = "done" THEN channel ELSE Append(channel, rbuf)
    /\ rbuf' = <<>>
    /\ rpc' = "check"
    /\ UNCHANGED <<dbvars, stopping, socket, ppc, hpc, spc, signals, clock,
                   sent, log,
                   pdata, call>>

\* start_receiver: drop(wait_group)
ReceiverDrop ==
    /\ rpc = "drop"
    /\ rpc' = "return"
    /\ UNCHANGED <<dbvars, stopping, socket, channel, rbuf, ppc, hpc, spc,
                   signals, clock, sent, log,
                   pdata, call>>

\* the receiver's closure returns: socket and data_sender are dropped
ReceiverReturn ==
    /\ rpc = "return"
    /\ rpc' = "done"
    /\ UNCHANGED <<dbvars, stopping, socket, channel, rbuf, ppc, hpc, spc,
                   signals, clock, sent, log,
                   pdata, call>>

\* start_processor: `if stopping.load() { break; }`
ProcessorCheck ==
    /\ ppc = "check"
    /\ ppc' = IF stopping THEN "drain" ELSE "process"
    /\ UNCHANGED <<dbvars, stopping, socket, channel, rpc, rbuf, hpc, spc,
                   signals, clock, sent, log,
                   pdata, call>>

\* process in the main loop: data_receiver.recv blocks until a datagram is
\* there, then decode and dispatch
ProcessorProcess ==
    /\ ppc = "process"
    /\ channel # <<>>
    /\ Dispatch(Head(channel))
    /\ channel' = Tail(channel)
    /\ ppc' = "check"
    /\ UNCHANGED <<rpc, rbuf, hpc, spc, signals, clock, sent, pdata, call>>

\* process in the main loop: recv fails with Err(ReceiveData) when the
\* channel is empty and the receiver thread has dropped the only Sender
ProcessorRecvError ==
    /\ ppc = "process"
    /\ channel = <<>>
    /\ rpc = "done"
    /\ ppc' = "check"
    /\ UNCHANGED <<dbvars, stopping, socket, channel, rpc, rbuf, hpc, spc,
                   signals, clock, sent, log,
                   pdata, call>>

\* `while !data_receiver.is_empty() { process }`: one more datagram
ProcessorDrain ==
    /\ ppc = "drain"
    /\ channel # <<>>
    /\ Dispatch(Head(channel))
    /\ channel' = Tail(channel)
    /\ UNCHANGED <<rpc, rbuf, ppc, hpc, spc, signals, clock, sent, pdata,
                   call>>

\* `while !data_receiver.is_empty()`: the channel is seen empty
ProcessorDrained ==
    /\ ppc = "drain"
    /\ channel = <<>>
    /\ ppc' = "drop"
    /\ UNCHANGED <<dbvars, stopping, socket, channel, rpc, rbuf, hpc, spc,
                   signals, clock, sent, log,
                   pdata, call>>

\* start_processor: drop(wait_group)
ProcessorDrop ==
    /\ ppc = "drop"
    /\ ppc' = "return"
    /\ UNCHANGED <<dbvars, stopping, socket, channel, rpc, rbuf, hpc, spc,
                   signals, clock, sent, log,
                   pdata, call>>

\* the processor's closure returns: data_receiver, db and store are dropped
ProcessorReturn ==
    /\ ppc = "return"
    /\ ppc' = "done"
    /\ UNCHANGED <<dbvars, stopping, socket, channel, rpc, rbuf, hpc, spc,
                   signals, clock, sent, log,
                   pdata, call>>

\* a termination signal starts the handler installed by ctrl_c_watcher
Signal ==
    /\ hpc = "idle"
    /\ spc # "returned"
    /\ Len(signals) < MaxSignals
    /\ signals' = Append(signals, clock)
    /\ hpc' = "store"
    /\ UNCHANGED <<dbvars, stopping, socket, channel, rpc, rbuf, ppc, spc,
                   clock, sent, log,
                   pdata, call>>

\* ctrl_c_watcher: stopping.store(true)
HandlerStore ==
    /\ hpc = "store"
    /\ stopping' = TRUE
    /\ hpc' = "send"
    /\ UNCHANGED <<dbvars, socket, channel, rpc, rbuf, ppc, spc, signals,
                   clock, sent, log,
                   pdata, call>>

\* mutant: the handler sets the flag only
HandlerSendNothing ==
    /\ hpc = "send"
    /\ hpc' = "idle"
    /\ UNCHANGED <<dbvars, stopping, socket, channel, rpc, rbuf, ppc, spc,
                   signals, clock, sent, log,
                   pdata, call>>

\* ctrl_c_watcher: client.send(&Message::Stop), an error is only logged
HandlerSend ==
    /\ hpc = "send"
    /\ socket' = client_send(socket, Stop)
    /\ hpc' = "idle"
    /\ UNCHANGED <<dbvars, stopping, channel, rpc, rbuf, ppc, spc, signals,
                   clock, sent, log,
                   pdata, call>>

\* mutant: run does not wait
SupervisorNoWait ==
    /\ spc = "wait"
    /\ spc' = "remove"
    /\ UNCHANGED <<dbvars, stopping, socket, channel, rpc, rbuf, ppc, hpc,
                   signals, clock, sent, log,
                   pdata, call>>

\* mutant: run waits for the receiver only
SupervisorWaitReceiver ==
    /\ spc = "wait"
    /\ rpc \in {"return", "done"}
    /\ spc' = "remove"
    /\ UNCHANGED <<dbvars, stopping, socket, channel, rpc, rbuf, ppc, hpc,
                   signals, clock, sent, log,
                   pdata, call>>

\* run: wait_group.wait() returns when both threads have dropped their clone
SupervisorWait ==
    /\ spc = "wait"
    /\ rpc \in {"return", "done"}
    /\ ppc \in {"return", "done"}
    /\ spc' = "remove"
    /\ UNCHANGED <<dbvars, stopping, socket, channel, rpc, rbuf, ppc, hpc,
                   signals, clock, sent, log,
                   pdata, call>>

\* run: remove_file(socket_path) and return
SupervisorRemove ==
    /\ spc = "remove"
    /\ spc' = "returned"
    /\ UNCHANGED <<dbvars, stopping, socket, channel, rpc, rbuf, ppc, hpc,
                   signals, clock, sent, log,
                   pdata, call>>

DaemonNext ==
    \/ ClientSend
    \/ ReceiverCheck
    \/ ReceiverRecvFrom
    \/ ReceiverRecvError
    \/ ReceiverSend
    \/ ReceiverDrop
    \/ ReceiverReturn
    \/ ProcessorCheck
    \/ ProcessorProcess
    \/ ProcessorRecvError
    \/ ProcessorDrain
    \/ ProcessorDrained
    \/ ProcessorDrop
    \/ ProcessorReturn
    \/ Signal
    \/ HandlerStore
    \/ HandlerSend
    \/ SupervisorWait
    \/ SupervisorRemove

SpecDaemon == Init /\ [][DaemonNext]_vars

----------------------------------------------------------------------------
(* SpecSignal: the daemon with the termination signal and few datagrams of *)
(* the clients, the threads being scheduled fairly.                        *)

SignalClientSend ==
    \E message \in ClientMessages :
        /\ sent < MaxSignalDatagrams
        /\ socket_open
        /\ socket' = Append(socket, encode(message))
        /\ sent' = sent + 1
        /\ clock' = clock + 1
        /\ UNCHANGED <<dbvars, stopping, channel, rpc, rbuf, ppc, hpc, spc,
                       signals, log, pdata, call>>

SignalNext ==
    \/ SignalClientSend
    \/ ReceiverCheck
    \/ ReceiverRecvFrom
    \/ ReceiverRecvError
    \/ ReceiverSend
    \/ ReceiverDrop
    \/ ReceiverReturn
    \/ ProcessorCheck
    \/ ProcessorProcess
    \/ ProcessorRecvError
    \/ ProcessorDrain
    \/ ProcessorDrained
    \/ ProcessorDrop
    \/ ProcessorReturn
    \/ Signal
    \/ HandlerStore
    \/ HandlerSend
    \/ SupervisorWait
    \/ SupervisorRemove

SpecSignal == Init /\ [][SignalNext]_vars

\* the operating system schedules every thread that can take a step, the
\* thread of the signal handler included; a receive on the channel whose
\* sender is gone returns
SpecSignalFair ==
    /\ SpecSignal
    /\ WF_vars(ReceiverCheck \/ ReceiverRecvFrom \/ ReceiverSend
                    \/ ReceiverDrop \/ ReceiverReturn)
    /\ WF_vars(ProcessorCheck \/ ProcessorProcess \/ ProcessorRecvError
                    \/ ProcessorDrain \/ ProcessorDrained \/ ProcessorDrop
                    \/ ProcessorReturn)
    /\ WF_vars(HandlerStore \/ HandlerSend)
    /\ WF_vars(SupervisorWait \/ SupervisorRemove)

----------------------------------------------------------------------------
(* SpecShell: the daemon while no termination signal is delivered, and one *)
(* shell session.  The hooks of the shell send CommandStart before and     *)
(* CommandFinished after each command line, and `hstdb stop` may be run at *)
(* any time.                                                               *)

ShellInput == [command |-> <<"l", "s">>, hostname |-> <<"h">>]

\* zsh_add_history and precmd in turn: the datagram is a CommandStart when
\* an even number of datagrams went before it, else a CommandFinished
ShellHook ==
    /\ sent < MaxHooks
    /\ socket_open
    /\ socket' = Append(socket, encode(
            IF sent % 2 = 0
            THEN CommandStart(new_command_start("s1", ShellInput))
            ELSE CommandFinished(new_command_finished("s1", 0))))
    /\ sent' = sent + 1
    /\ clock' = clock + 1
    /\ UNCHANGED <<dbvars, stopping, channel, rpc, rbuf, ppc, hpc, spc,
                   signals, log, pdata, call>>

\* run::stop: `hstdb stop` sends a Stop
ShellStop ==
    /\ sent < MaxHooks
    /\ socket_open
    /\ socket' = Append(socket, encode(Stop))
    /\ sent' = sent + 1
    /\ clock' = clock + 1
    /\ UNCHANGED <<dbvars, stopping, channel, rpc, rbuf, ppc, hpc, spc,
                   signals, log, pdata, call>>

\* the steps the receiver thread takes whenever it is scheduled; a failing
\* recv_from is possible at any time but nothing makes it happen
ReceiverSteps ==
    \/ ReceiverCheck
    \/ ReceiverRecvFrom
    \/ ReceiverSend
    \/ ReceiverDrop
    \/ ReceiverReturn

\* the steps the processor thread takes whenever it is scheduled
ProcessorSteps ==
    \/ ProcessorCheck
    \/ ProcessorProcess
    \/ ProcessorDrain
    \/ ProcessorDrained
    \/ ProcessorDrop
    \/ ProcessorReturn

\* the steps of Server::run after the threads have been started
SupervisorSteps ==
    \/ SupervisorWait
    \/ SupervisorRemove

ShellNext ==
    \/ ShellHook
    \/ ShellStop
    \/ ReceiverSteps
    \/ ReceiverRecvError
    \/ ProcessorSteps
    \/ SupervisorSteps

SpecShell == Init /\ [][ShellNext]_vars

\* the operating system schedules every thread that can take a step
SpecShellFair ==
    /\ SpecShell
    /\ WF_vars(ReceiverSteps)
    /\ WF_vars(ProcessorSteps)
    /\ WF_vars(SupervisorSteps)

----------------------------------------------------------------------------
(* SpecPeer: the daemon while no termination signal is delivered.  The     *)
(* peers of the socket send any datagram: the messages of a session, in    *)
(* any order, a start whose hostname names a directory that is missing,    *)
(* and bytes that are no message.                                          *)

PeerStart(hostname) ==
    CommandStart(new_command_start("s1", [command |-> <<"l", "s">>,
                                          hostname |-> hostname]))

PeerDatagrams ==
    { <<>>,
      <<9>>,
      <<3, <<"l", "s">>>>,
      encode(Stop),
      encode(Disable("s1")),
      encode(PeerStart(<<"h">>)),
      encode(PeerStart(<<"d", "/", "h">>)),
      encode(CommandFinished(new_command_finished("s1", 0))) }

PeerSend ==
    \E data \in PeerDatagrams :
        /\ sent < MaxPeerDatagrams
        /\ socket_open
        /\ socket' = Append(socket, data)
        /\ sent' = sent + 1
        /\ clock' = clock + 1
        /\ UNCHANGED <<dbvars, stopping, channel, rpc, rbuf, ppc, hpc, spc,
                       signals, log, pdata, call>>

PeerNext ==
    \/ PeerSend
    \/ ReceiverSteps
    \/ ReceiverRecvError
    \/ ProcessorSteps
    \/ SupervisorSteps

SpecPeer == Init /\ [][PeerNext]_vars

----------------------------------------------------------------------------
(* SpecWorkers: both worker threads with everything that can fail in their *)
(* loops: reads of the socket, datagrams that are no message, handlers     *)
(* that reject a message, sends into a channel whose receiver is gone and  *)
(* receives from a channel whose sender is gone; the flag is set by a Stop *)
(* of a peer or by the signal handler.                                     *)

\* bytes that are no message, a Stop, and a finish without its start
WorkerDatagrams ==
    { <<9>>,
      encode(Stop),
      encode(CommandFinished(new_command_finished("s1", 0))) }

WorkersSend ==
    \E data \in WorkerDatagrams :
        /\ sent < MaxDatagrams
        /\ socket_open
        /\ socket' = Append(socket, data)
        /\ sent' = sent + 1
        /\ clock' = clock + 1
        /\ UNCHANGED <<dbvars, stopping, channel, rpc, rbuf, ppc, hpc, spc,
                       signals, log, pdata, call>>

WorkersNext ==
    \/ WorkersSend
    \/ ReceiverSteps
    \/ ReceiverRecvError
    \/ ProcessorSteps
    \/ ProcessorRecvError
    \/ Signal
    \/ HandlerStore
    \/ HandlerSend
    \/ SupervisorSteps

SpecWorkers == Init /\ [][WorkersNext]_vars

----------------------------------------------------------------------------
(* SpecHooks: the daemon while no termination signal is delivered, and a   *)
(* shell session whose hooks run zsh_add_history with the command line and *)
(* precmd before the next prompt, each a process that reads the            *)
(* configuration file when it starts.                                      *)

\* Config::default()
DefaultConfig == [ignore_space |-> TRUE]

SpaceCommand == <<" ", "l", "s">>

\* the configuration and the command line of a call of zsh_add_history;
\* the command line " ls" is only entered while ignore_space is set
HookInputs ==
    { [config |-> DefaultConfig, command |-> SpaceCommand],
      [config |-> DefaultConfig, command |-> <<"l", "s">>],
      [config |-> [ignore_space |-> FALSE], command |-> <<" ", "c", "d">>] }

\* str::starts_with
starts_with(text, c) == text # <<>> /\ text[1] = c

\* mutant: the configuration is not looked at
zsh_add_history_records_all(sock, config, data) ==
    client_send(sock, CommandStart(data))

zsh_add_history(sock, config, data) ==
    IF config.ignore_space /\ starts_with(data.command, " ")
    THEN sock
    ELSE client_send(sock, CommandStart(data))

HookZshAddHistory ==
    \E in \in HookInputs :
        /\ sent < MaxShellDatagrams
        /\ socket_open
        /\ socket' = zsh_add_history(socket, in.config,
                        new_command_start("s1", [command |-> in.command,
                                                 hostname |-> <<"h">>]))
        /\ sent' = IF socket' = socket THEN sent ELSE sent + 1
        /\ clock' = IF socket' = socket THEN clock ELSE clock + 1
        /\ call' = [op |-> "zsh_add_history", config |-> in.config,
                    command |-> in.command]
        /\ UNCHANGED <<dbvars, stopping, channel, rpc, rbuf, ppc, hpc, spc,
                       signals, log, pdata>>

HookPrecmd ==
    /\ sent < MaxShellDatagrams
    /\ socket_open
    /\ socket' = client_send(socket,
                    CommandFinished(new_command_finished("s1", 0)))
    /\ sent' = sent + 1
    /\ clock' = clock + 1
    /\ UNCHANGED <<dbvars, stopping, channel, rpc, rbuf, ppc, hpc, spc,
                   signals, log, pdata, call>>

HookStop ==
    /\ sent < MaxShellDatagrams
    /\ socket_open
    /\ socket' = client_send(socket, Stop)
    /\ sent' = sent + 1
    /\ clock' = clock + 1
    /\ UNCHANGED <<dbvars, stopping, channel, rpc, rbuf, ppc, hpc, spc,
                   signals, log, pdata, call>>

HooksNext ==
    \/ HookZshAddHistory
    \/ HookPrecmd
    \/ HookStop
    \/ ReceiverSteps
    \/ ReceiverRecvError
    \/ ProcessorSteps
    \/ SupervisorSteps

SpecHooks == Init /\ [][HooksNext]_vars

----------------------------------------------------------------------------
(* SpecRun: Server::run of `hstdb server` from the moment both threads are *)
(* started, with the two calls of run that can fail: the installation of   *)
(* the ctrl-c handler, and the removal of the socket file, which another   *)
(* process may have removed before.  An Err of run ends the process.       *)

\* the errors `?` returns from run
RunErrors == {"SetupCtrlHandler", "RemoveSocket"}

\* Builder::build on empty cache and data directories, then Server::run up
\* to the call of ctrl_c_watcher
InitRun ==
    /\ entries = EmptyTree
    /\ disabled_sessions = EmptyTree
    /\ files = EmptyTree
    /\ stopping = FALSE
    /\ socket = <<>>
    /\ channel = <<>>
    /\ rpc = "check"
    /\ rbuf = <<>>
    /\ ppc = "check"
    /\ hpc = "idle"
    /\ spc = "watch"
    /\ signals = <<>>
    /\ clock = 1
    /\ sent = 0
    /\ log = <<>>
    /\ pdata = NoData
    /\ call = NoCall

\* run: ctrl_c_watcher returns Ok, the handler is installed
SupervisorWatch ==
    /\ spc = "watch"
    /\ spc' = "wait"
    /\ UNCHANGED <<dbvars, stopping, socket, channel, rpc, rbuf, ppc, hpc,
                   signals, clock, sent, log, pdata, call>>

\* run: ctrlc::set_handler fails, `?` returns Err(SetupCtrlHandler)
SupervisorWatchError ==
    /\ spc = "watch"
    /\ spc' = "SetupCtrlHandler"
    /\ UNCHANGED <<dbvars, stopping, socket, channel, rpc, rbuf, ppc, hpc,
                   signals, clock, sent, log, pdata, call>>

\* run: remove_file fails, `?` returns Err(RemoveSocket)
SupervisorRemoveError ==
    /\ spc = "remove"
    /\ spc' = "RemoveSocket"
    /\ UNCHANGED <<dbvars, stopping, socket, channel, rpc, rbuf, ppc, hpc,
                   signals, clock, sent, log, pdata, call>>

\* the threads and the clients while the process of the daemon lives
RunThreads ==
    /\ spc \notin RunErrors
    /\ \/ ClientSend
       \/ ReceiverSteps
       \/ ReceiverRecvError
       \/ ProcessorSteps
       \/ ProcessorRecvError
       \/ HandlerStore
       \/ HandlerSend

\* a termination signal once the handler is installed
RunSignal ==
    /\ spc \in {"wait", "remove"}
    /\ Signal

RunNext ==
    \/ RunThreads
    \/ RunSignal
    \/ SupervisorWatch
    \/ SupervisorWatchError
    \/ SupervisorWait
    \/ SupervisorRemove
    \/ SupervisorRemoveError

SpecRun == InitRun /\ [][RunNext]_vars

----------------------------------------------------------------------------
(* SpecCrash: the processor handling the datagrams of the channel one      *)
(* database or store operation at a time, and the daemon being killed at   *)
(* any moment.  Every sled operation is durable when it returns.           *)

\* the receiver forwards the datagram of a client
Forward ==
    \E uuid \in Sessions :
        \E message \in { CommandStart(new_command_start(uuid, ShellInput)),
                         CommandFinished(new_command_finished(uuid, 0)),
                         Disable(uuid),
                         Enable(uuid) } :
            /\ sent < MaxForwards
            /\ ppc # "killed"
            /\ channel' = Append(channel, encode(message))
            /\ sent' = sent + 1
            /\ clock' = clock + 1
            /\ UNCHANGED <<dbvars, stopping, socket, rpc, rbuf, ppc, hpc, spc,
                           signals, log, pdata, call>>

\* process: data_receiver.recv and decode_from_slice; the match arm to run
StepRecv ==
    /\ ppc = "process"
    /\ channel # <<>>
    /\ pdata' = [data |-> Head(channel), entry |-> <<>>]
    /\ channel' = Tail(channel)
    /\ ppc' = decode(Head(channel)).message.type
    /\ UNCHANGED <<dbvars, stopping, socket, rpc, rbuf, hpc, spc, signals,
                   clock, sent, log>>
    /\ UNCHANGED call

\* the handler under way ends with Result err
StepEnd(err) ==
    /\ log' = Append(log, [message |-> decode(pdata.data).message,
                           err |-> err])
    /\ pdata' = NoData
    /\ ppc' = "check"
    /\ UNCHANGED <<stopping, socket, channel, rpc, rbuf, hpc, spc, signals,
                   clock, sent, call>>

\* command_start: contains_entry, is_session_disabled, add_entry
StepCommandStart ==
    /\ ppc = "CommandStart"
    /\ LET r == command_start(Db, decode(pdata.data).message.data)
       IN /\ entries' = r.db.entries
          /\ disabled_sessions' = r.db.disabled_sessions
          /\ StepEnd(r.err)
    /\ files' = files

\* command_finished: is_session_disabled, contains_entry, remove_entry
StepCommandFinished ==
    /\ ppc = "CommandFinished"
    /\ LET data == decode(pdata.data).message.data IN
       IF is_session_disabled(Db, data.session_id)
       THEN UNCHANGED dbvars /\ StepEnd("DisabledSession")
       ELSE IF ~contains_entry(Db, data.session_id)
       THEN UNCHANGED dbvars /\ StepEnd("SessionCommandNotStarted")
       ELSE LET removed == remove_entry(Db, data.session_id)
            IN /\ entries' = removed.db.entries
               /\ pdata' = [pdata EXCEPT
                                !.entry = encode_command_start(removed.entry)]
               /\ ppc' = "store_add"
               /\ UNCHANGED <<disabled_sessions, files, stopping, socket,
                              channel, rpc, rbuf, hpc, spc, signals, clock,
                              sent, log, call>>

\* command_finished: Entry::from_messages and store.add
StepStoreAdd ==
    /\ ppc = "store_add"
    /\ LET start == decode_command_start(pdata.entry)
           finish == decode(pdata.data).message.data
           added == store_add(files, from_messages(start, finish))
       IN /\ files' = added.fs
          /\ StepEnd(IF added.err # "Ok" THEN "AddStore" ELSE "Ok")
    /\ UNCHANGED <<entries, disabled_sessions>>

\* Db::disable_session: disabled_sessions.insert
StepDisableInsert ==
    /\ ppc = "Disable"
    /\ disabled_sessions' =
            sled_insert(disabled_sessions,
                        serialize_uuid(decode(pdata.data).message.uuid),
                        serialize_true)
    /\ ppc' = "remove_entry"
    /\ UNCHANGED <<entries, files, stopping, socket, channel, rpc, rbuf, hpc,
                   spc, signals, clock, sent, log, pdata, call>>

\* Db::disable_session: remove_entry
StepDisableRemove ==
    /\ ppc = "remove_entry"
    /\ LET removed == remove_entry(Db, decode(pdata.data).message.uuid)
       IN /\ entries' = removed.db.entries
          /\ StepEnd(removed.err)
    /\ UNCHANGED <<disabled_sessions, files>>

\* Db::enable_session: disabled_sessions.remove
StepEnable ==
    /\ ppc = "Enable"
    /\ LET r == server_enable_session(Db, decode(pdata.data).message.uuid)
       IN /\ entries' = r.db.entries
          /\ disabled_sessions' = r.db.disabled_sessions
          /\ StepEnd(r.err)
    /\ files' = files

\* the daemon is killed (SIGKILL, power loss): no thread takes another step
Kill ==
    /\ ppc # "killed"
    /\ ppc' = "killed"
    /\ UNCHANGED <<dbvars, stopping, socket, channel, rpc, rbuf, hpc, spc,
                   signals, clock, sent, log, pdata, call>>

CrashNext ==
    \/ Forward
    \/ ProcessorCheck
    \/ StepRecv
    \/ StepCommandStart
    \/ StepCommandFinished
    \/ StepStoreAdd
    \/ StepDisableInsert
    \/ StepDisableRemove
    \/ StepEnable
    \/ Kill

SpecCrash == Init /\ [][CrashNext]_vars

----------------------------------------------------------------------------
(* SpecStop: SpecDaemon with the Stop arm of process() in the main loop    *)
(* taken one statement at a time.  In the drain loop the flag is set       *)
(* already, and the arm is the send alone.                                 *)

\* mutant: the self-Stop is sent before the flag is set
stop_arm_send_first == <<"send", "store">>

\* process, `Message::Stop => { ... }`: the statements in program order
stop_arm == <<"store", "send">>

\* one statement of the Stop arm
StopStatement(statement) ==
    IF statement = "store"
    THEN stopping' = TRUE /\ socket' = socket
    ELSE socket' = client_send(socket, Stop) /\ stopping' = stopping

IsStop(data) == decode(data).ok /\ decode(data).message.type = "Stop"

\* process in the main loop: a datagram that is no Stop
StopProcessOther ==
    /\ channel # <<>>
    /\ ~IsStop(Head(channel))
    /\ ProcessorProcess

\* process in the main loop: recv and decode of a Stop
StopRecv ==
    /\ channel # <<>>
    /\ IsStop(Head(channel))
    /\ StepRecv

StopFirst ==
    /\ ppc = "Stop"
    /\ StopStatement(stop_arm[1])
    /\ ppc' = "Stop2"
    /\ UNCHANGED <<dbvars, channel, rpc, rbuf, hpc, spc, signals, clock,
                   sent, log, pdata, call>>

StopSecond ==
    /\ ppc = "Stop2"
    /\ StopStatement(stop_arm[2])
    /\ log' = Append(log, [message |-> Stop, err |-> "Ok"])
    /\ pdata' = NoData
    /\ ppc' = "check"
    /\ UNCHANGED <<dbvars, channel, rpc, rbuf, hpc, spc, signals, clock,
                   sent, call>>

StopNext ==
    \/ ClientSend
    \/ ReceiverSteps
    \/ ReceiverRecvError
    \/ ProcessorCheck
    \/ StopProcessOther
    \/ StopRecv
    \/ StopFirst
    \/ StopSecond
    \/ ProcessorRecvError
    \/ ProcessorDrain
    \/ ProcessorDrained
    \/ ProcessorDrop
    \/ ProcessorReturn
    \/ Signal
    \/ HandlerStore
    \/ HandlerSend
    \/ SupervisorSteps

SpecStop == Init /\ [][StopNext]_vars

----------------------------------------------------------------------------
(* SpecStore: calls of Store::add and Store::get_entries on a data         *)
(* directory that earlier runs have left in one of the states DataDirs.    *)

NewEntry(time_finished, time_start, hostname, command, pwd, result, uuid) ==
    [time_finished |-> time_finished, time_start |-> time_start,
     hostname |-> hostname, command |-> command, pwd |-> pwd,
     result |-> result, session_id |-> uuid, user |-> <<"u">>]

\* the entries handed to Store::add
EntryInputs ==
    { NewEntry(2, 1, <<"h">>, <<"l", "s">>, Pwd, 0, "s1"),
      NewEntry(2, 1, <<"h">>, <<"c", "d", " ", "|", "l", "s">>, Pwd, 1, "s1"),
      NewEntry(1, 1, <<"g">>, <<"l", "s">>, Pwd \o <<"/", "x">>, 0, "s2"),
      NewEntry(3, 3, <<"g">>, <<"c", "d">>, <<"/">>, 1, "s2"),
      NewEntry(3, 2, <<"h">>, <<>>, Pwd, 0, "s1") }

\* an entry an earlier run has written
OldEntry(hostname) == NewEntry(9, 0, hostname, <<"l", "s">>, Pwd, 0, "s1")

\* the data directories the store is opened on: a new one; one with an
\* index file written by an earlier run; one with an index file that was
\* created and never written (add_entry creates the file when it opens it
\* and writes when the csv writer is dropped); one with an index file and a
\* file that is no index
DataDirs ==
    { EmptyTree,
      append_rows(EmptyTree, index_path(<<"h">>),
                  <<HeaderRow, serialize_row(OldEntry(<<"h">>))>>),
      append_rows(EmptyTree, index_path(<<"h">>), <<>>),
      append_rows(append_rows(EmptyTree, index_path(<<"g">>),
                              <<HeaderRow, serialize_row(OldEntry(<<"g">>))>>),
                  path_join(data_dir, <<"x">>),
                  <<HeaderRow, serialize_row(OldEntry(<<"x">>))>>) }

\* the filters handed to Store::get_entries
FilterInputs ==
    { DefaultFilter,
      [DefaultFilter EXCEPT !.hostname = Some(<<"h">>)],
      [DefaultFilter EXCEPT !.hostname = Some(<<"g">>)],
      [DefaultFilter EXCEPT !.hostname = Some(<<"x">>)],
      [DefaultFilter EXCEPT !.command = Some(<<"l", "s">>)],
      [DefaultFilter EXCEPT !.command = Some(<<"l", "s">>), !.count = 1],
      [DefaultFilter EXCEPT !.directory = Some(Pwd)],
      [DefaultFilter EXCEPT !.directory = Some(Pwd), !.no_subdirs = TRUE],
      [DefaultFilter EXCEPT !.command_text = Some(<<"d">>)],
      [DefaultFilter EXCEPT !.command_text_excluded = Some(<<"d">>)],
      [DefaultFilter EXCEPT !.session = Some(<<"1">>)],
      [DefaultFilter EXCEPT !.failed = TRUE],
      [DefaultFilter EXCEPT !.failed = TRUE, !.session = Some(<<"1">>)],
      [DefaultFilter EXCEPT !.find_status = Some(1)],
      [DefaultFilter EXCEPT !.count = 1],
      [DefaultFilter EXCEPT !.count = 2],
      [DefaultFilter EXCEPT !.hostname = Some(<<"h">>), !.count = 3] }

RECURSIVE TotalRows(_)
TotalRows(fs) ==
    IF DOMAIN fs = {} THEN 0
    ELSE LET path == CHOOSE p \in DOMAIN fs : TRUE
         IN Len(fs[path]) + TotalRows([p \in DOMAIN fs \ {path} |-> fs[p]])

InitStore ==
    /\ files \in DataDirs
    /\ call = NoCall
    /\ entries = EmptyTree
    /\ disabled_sessions = EmptyTree
    /\ stopping = FALSE
    /\ socket = <<>>
    /\ channel = <<>>
    /\ rpc = "check"
    /\ rbuf = <<>>
    /\ ppc = "check"
    /\ hpc = "idle"
    /\ spc = "wait"
    /\ signals = <<>>
    /\ clock = 1
    /\ sent = 0
    /\ log = <<>>
    /\ pdata = NoData

\* the variables the store and the filter do not touch
daemonvars ==
    <<entries, disabled_sessions, stopping, socket, channel, rpc, rbuf, ppc,
      hpc, spc, signals, clock, sent, log, pdata>>

StoreAdd ==
    \E entry \in EntryInputs :
        /\ TotalRows(files) < MaxRows
        /\ files' = store_add(files, entry).fs
        /\ call' = [op |-> "add", entry |-> entry,
                    err |-> store_add(files, entry).err]
        /\ UNCHANGED daemonvars

\* hstdb import: the entries of a history file go to add_entry directly
StoreAddEntry ==
    \E entry \in EntryInputs :
        /\ TotalRows(files) < MaxRows
        /\ files' = store_add_entry(files, entry).fs
        /\ call' = [op |-> "add_entry", entry |-> entry,
                    err |-> store_add_entry(files, entry).err]
        /\ UNCHANGED daemonvars

StoreGetEntries ==
    \E filter \in FilterInputs :
        /\ call' = [op |-> "get_entries", filter |-> filter,
                    result |-> get_entries(files, filter)]
        /\ UNCHANGED <<files, daemonvars>>

StoreNext ==
    \/ StoreAdd
    \/ StoreAddEntry
    \/ StoreGetEntries

SpecStore == InitStore /\ [][StoreNext]_vars

----------------------------------------------------------------------------
(* SpecFilter: Filter::filter_command on a command and a literal.          *)

CommandChars == {"t", "e", " ", "|", "'"}

\* the texts over CommandChars of at most n characters
Texts(n) == UNION {[1..k -> CommandChars] : k \in 0..n}

Literals == {<<"t">>, <<>>, <<"'", "t", "'">>}

InitFilter ==
    /\ call \in {[op |-> "input", entry_command |-> text, command |-> literal] :
                    text \in Texts(MaxCommandLen), literal \in Literals}
    /\ files = EmptyTree
    /\ entries = EmptyTree
    /\ disabled_sessions = EmptyTree
    /\ stopping = FALSE
    /\ socket = <<>>
    /\ channel = <<>>
    /\ rpc = "check"
    /\ rbuf = <<>>
    /\ ppc = "check"
    /\ hpc = "idle"
    /\ spc = "wait"
    /\ signals = <<>>
    /\ clock = 1
    /\ sent = 0
    /\ log = <<>>
    /\ pdata = NoData

FilterCommand ==
    /\ call.op = "input"
    /\ call' = [op |-> "filter_command",
                entry_command |-> call.entry_command,
                command |-> call.command,
                result |-> filter_command(call.entry_command, call.command)]
    /\ UNCHANGED <<files, daemonvars>>

SpecFilter == InitFilter /\ [][FilterCommand]_vars

----------------------------------------------------------------------------
(* SpecIndexPath: an entry of one host is written to an empty data         *)
(* directory, then the index files of that host and of another are read.   *)

HostnameChars == {"h", "d", ".", "/"}

Hostnames == UNION {[1..k -> HostnameChars] : k \in 0..MaxHostnameLen}

HostEntry(hostname) == NewEntry(2, 1, hostname, <<"l", "s">>, Pwd, 0, "s1")

InitIndexPath ==
    /\ call \in {[op |-> "input", hostname |-> hostname, other |-> other] :
                    hostname \in Hostnames, other \in Hostnames}
    /\ files = EmptyTree
    /\ entries = EmptyTree
    /\ disabled_sessions = EmptyTree
    /\ stopping = FALSE
    /\ socket = <<>>
    /\ channel = <<>>
    /\ rpc = "check"
    /\ rbuf = <<>>
    /\ ppc = "check"
    /\ hpc = "idle"
    /\ spc = "wait"
    /\ signals = <<>>
    /\ clock = 1
    /\ sent = 0
    /\ log = <<>>
    /\ pdata = NoData

HostAddEntry ==
    /\ call.op = "input"
    /\ files' = store_add_entry(files, HostEntry(call.hostname)).fs
    /\ call' = [op |-> "add_entry", hostname |-> call.hostname,
                other |-> call.other,
                err |-> store_add_entry(files, HostEntry(call.hostname)).err]
    /\ UNCHANGED daemonvars

HostGetEntries ==
    /\ call.op = "add_entry"
    /\ call' = [op |-> "get_entries", hostname |-> call.hostname,
                other |-> call.other, err |-> call.err,
                own |-> get_entries(files,
                    [DefaultFilter EXCEPT !.hostname = Some(call.hostname)]),
                theirs |-> get_entries(files,
                    [DefaultFilter EXCEPT !.hostname = Some(call.other)])]
    /\ UNCHANGED <<files, daemonvars>>

IndexPathNext ==
    \/ HostAddEntry
    \/ HostGetEntries

SpecIndexPath == InitIndexPath /\ [][IndexPathNext]_vars

----------------------------------------------------------------------------
(* SpecImport: `hstdb import histfile` and `hstdb import histdb` on an     *)
(* empty data directory.  A history file is a sequence of lines, a histdb  *)
(* database the rows of its joined history table in the order of their     *)
(* start times.                                                            *)

\* slice::join
RECURSIVE join(_, _)
join(pieces, sep) ==
    IF pieces = <<>> THEN <<>>
    ELSE IF Len(pieces) = 1 THEN pieces[1]
    ELSE pieces[1] \o <<sep>> \o join(Tail(pieces), sep)

\* str::parse of an unsigned number: Some(value), or None
RECURSIVE parse_number(_)
parse_number(text) ==
    IF text = <<>> \/ \E i \in DOMAIN text : text[i] \notin {"0", "1", "2"}
    THEN None
    ELSE LET digit == CASE text[Len(text)] = "0" -> 0
                        [] text[Len(text)] = "1" -> 1
                        [] text[Len(text)] = "2" -> 2
         IN IF Len(text) = 1 THEN Some(digit)
            ELSE Some(10 * parse_number(SubSeq(text, 1, Len(text) - 1))[1]
                        + digit)

\* str::trim_end_matches('\\')
RECURSIVE trim_end_backslashes(_)
trim_end_backslashes(text) ==
    IF text # <<>> /\ text[Len(text)] = "\\"
    THEN trim_end_backslashes(SubSeq(text, 1, Len(text) - 1))
    ELSE text

\* histfile: a line ": <timestamp>:<code>;<command>"
histfile_line(line) ==
    LET fields == split(line, ":")
        timestamp == parse_number(trim(fields[2]))
        code_command == split(join(SubSeq(fields, 3, Len(fields)), ":"), ";")
        code == parse_number(code_command[1])
        command == join(Tail(code_command), ";")
    IN IF timestamp = None THEN [err |-> "ParseTimestamp"]
       ELSE IF code = None THEN [err |-> "ParseResultCode"]
       ELSE [err |-> "Ok", time_finished |-> timestamp[1],
             result |-> code[1], command |-> command]

NoAccumulator == [command |-> None, multiline_command |-> FALSE,
                  list |-> <<>>, err |-> "Ok"]

\* histfile: the body of `for (index, line) in reader.lines().enumerate()`
histfile_step(acc, line) ==
    LET ended == starts_with(line, ":") /\ acc.multiline_command
        acc1 == IF ended
                THEN [acc EXCEPT !.command = None,
                                 !.multiline_command = FALSE,
                                 !.list = Append(acc.list, acc.command[1])]
                ELSE acc
    IN IF starts_with(line, ":")
       THEN LET parsed == histfile_line(line) IN
            IF parsed.err # "Ok" THEN [acc1 EXCEPT !.err = parsed.err]
            ELSE IF ends_with(parsed.command, <<"\\">>)
            THEN [acc1 EXCEPT
                    !.command = Some([parsed EXCEPT !.command =
                        trim_end_backslashes(parsed.command) \o <<"\n">>]),
                    !.multiline_command = TRUE]
            ELSE [acc1 EXCEPT !.list = Append(acc1.list, parsed)]
       ELSE IF acc1.command # None
       THEN [acc1 EXCEPT !.command = Some([acc1.command[1] EXCEPT !.command =
                                        @ \o line \o <<"\n">>])]
       ELSE [acc1 EXCEPT !.err = "unreachable"]

\* histfile: the loop over the lines, and the command still accumulated
RECURSIVE histfile_entries(_, _)
histfile_entries(acc, lines) ==
    IF acc.err # "Ok" THEN acc
    ELSE IF lines = <<>>
    THEN IF acc.command # None
         THEN [acc EXCEPT !.list = Append(acc.list, acc.command[1])]
         ELSE acc
    ELSE histfile_entries(histfile_step(acc, Head(lines)), Tail(lines))

\* the same loop through Store::add, the call of the daemon
RECURSIVE add_entries_checked(_, _)
add_entries_checked(fs, list) ==
    IF list = <<>> THEN [fs |-> fs, err |-> "Ok"]
    ELSE LET added == store_add(fs, Head(list))
         IN IF added.err # "Ok" THEN added
            ELSE add_entries_checked(added.fs, Tail(list))

\* the loop `for entry in entries { store.add_entry(&entry)?; }`
RECURSIVE add_entries(_, _)
add_entries(fs, list) ==
    IF list = <<>> THEN [fs |-> fs, err |-> "Ok"]
    ELSE LET added == store_add_entry(fs, Head(list))
         IN IF added.err # "Ok" THEN added
            ELSE add_entries(added.fs, Tail(list))

\* import::histfile
histfile(fs, lines) ==
    LET read == histfile_entries(NoAccumulator, lines)
        list == [i \in DOMAIN read.list |->
                    [time_finished |-> read.list[i].time_finished,
                     time_start |-> read.list[i].time_finished,
                     hostname |-> <<"h">>,
                     command |-> read.list[i].command,
                     pwd |-> Pwd,
                     result |-> read.list[i].result,
                     session_id |-> "s1",
                     user |-> <<"u">>]]
    IN IF read.err # "Ok" THEN [fs |-> fs, err |-> read.err]
       ELSE add_entries(fs, list)

\* import::histdb: rows without duration or exit status and rows whose
\* command is empty after trimming are passed over
histdb(fs, rows) ==
    LET kept(i) == /\ rows[i].duration # None
                   /\ rows[i].exit_status # None
                   /\ trim(rows[i].command) # <<>>
        places == SelectSeq([i \in DOMAIN rows |-> i], kept)
        list == [k \in DOMAIN places |->
                    LET i == places[k] IN
                    [time_finished |-> i + rows[i].duration[1],
                     time_start |-> i,
                     hostname |-> <<"h">>,
                     command |-> rows[i].command,
                     pwd |-> Pwd,
                     result |-> rows[i].exit_status[1],
                     session_id |-> "s1",
                     user |-> <<>>]]
    IN add_entries(fs, list)

HistfileLines ==
    { <<":", " ", "1", ":", "0", ";", "l", "s">>,
      <<":", " ", "2", ":", "1", ";">>,
      <<":", " ", "1", ":", "0", ";", "l", "\\">>,
      <<"s">>,
      <<":", "1">> }

HistdbRows ==
    { [duration |-> Some(1), exit_status |-> Some(0), command |-> <<"l", "s">>],
      [duration |-> Some(1), exit_status |-> Some(1), command |-> <<>>],
      [duration |-> Some(1), exit_status |-> Some(0), command |-> <<" ">>],
      [duration |-> None, exit_status |-> Some(0), command |-> <<"l", "s">>],
      [duration |-> Some(1), exit_status |-> None, command |-> <<"l", "s">>] }

InitImport ==
    /\ call \in
        {[op |-> "input", from |-> "histfile", lines |-> lines, rows |-> <<>>] :
            lines \in UNION {[1..k -> HistfileLines] : k \in 0..MaxImportLines}}
        \cup
        {[op |-> "input", from |-> "histdb", lines |-> <<>>, rows |-> rows] :
            rows \in UNION {[1..k -> HistdbRows] : k \in 1..MaxImportLines}}
    /\ files = EmptyTree
    /\ entries = EmptyTree
    /\ disabled_sessions = EmptyTree
    /\ stopping = FALSE
    /\ socket = <<>>
    /\ channel = <<>>
    /\ rpc = "check"
    /\ rbuf = <<>>
    /\ ppc = "check"
    /\ hpc = "idle"
    /\ spc = "wait"
    /\ signals = <<>>
    /\ clock = 1
    /\ sent = 0
    /\ log = <<>>
    /\ pdata = NoData

ImportHistfile ==
    /\ call.op = "input"
    /\ call.from = "histfile"
    /\ \E r \in {histfile(files, call.lines)} :
        /\ files' = r.fs
        /\ call' = [op |-> "histfile", from |-> call.from,
                    lines |-> call.lines, rows |-> call.rows, err |-> r.err]
    /\ UNCHANGED daemonvars

ImportHistdb ==
    /\ call.op = "input"
    /\ call.from = "histdb"
    /\ \E r \in {histdb(files, call.rows)} :
        /\ files' = r.fs
        /\ call' = [op |-> "histdb", from |-> call.from,
                    lines |-> call.lines, rows |-> call.rows, err |-> r.err]
    /\ UNCHANGED daemonvars

ImportNext ==
    \/ ImportHistfile
    \/ ImportHistdb

SpecImport == InitImport /\ [][ImportNext]_vars

----------------------------------------------------------------------------
(* SpecCodec: a message is encoded as Client::send encodes it and the      *)
(* bytes are decoded as Server::process decodes them.  Every message of    *)
(* CodecMessages is far shorter than the receive buffer of 65527 bytes.    *)

CodecMessages ==
    {Stop}
        \cup {Disable(uuid) : uuid \in Sessions}
        \cup {Enable(uuid) : uuid \in Sessions}
        \cup {CommandStart([command |-> command, pwd |-> pwd,
                            session_id |-> uuid, time_stamp |-> time_stamp,
                            user |-> user, hostname |-> hostname]) :
                command \in {<<>>, <<"l", "s">>, <<" ", "l", "\n">>},
                pwd \in {Pwd, <<"/">>},
                uuid \in Sessions,
                time_stamp \in {1, 2},
                user \in {<<"u">>, <<"h">>},
                hostname \in {<<"h">>, <<"u", ".", "h">>}}
        \cup {CommandFinished([session_id |-> uuid, time_stamp |-> time_stamp,
                               result |-> result]) :
                uuid \in Sessions, time_stamp \in {0, 1},
                result \in {0, 1, 65535}}

InitCodec ==
    /\ call \in {[op |-> "input", message |-> message] :
                    message \in CodecMessages}
    /\ files = EmptyTree
    /\ entries = EmptyTree
    /\ disabled_sessions = EmptyTree
    /\ stopping = FALSE
    /\ socket = <<>>
    /\ channel = <<>>
    /\ rpc = "check"
    /\ rbuf = <<>>
    /\ ppc = "check"
    /\ hpc = "idle"
    /\ spc = "wait"
    /\ signals = <<>>
    /\ clock = 1
    /\ sent = 0
    /\ log = <<>>
    /\ pdata = NoData

\* bincode::encode_to_vec
CodecEncode ==
    /\ call.op = "input"
    /\ call' = [op |-> "encode", message |-> call.message,
                data |-> encode(call.message)]
    /\ UNCHANGED <<files, daemonvars>>

\* bincode::decode_from_slice
CodecDecode ==
    /\ call.op = "encode"
    /\ call' = [op |-> "decode", message |-> call.message,
                data |-> call.data, decoded |-> decode(call.data)]
    /\ UNCHANGED <<files, daemonvars>>

CodecNext ==
    \/ CodecEncode
    \/ CodecDecode

SpecCodec == InitCodec /\ [][CodecNext]_vars

----------------------------------------------------------------------------
(* Reading the state and the history *)

Pending(uuid) == contains_entry(Db, uuid)

Disabled(uuid) == is_session_disabled(Db, uuid)

\* the pending start stored for a pending session
PendingStart(uuid) == deserialize_entry(entries[serialize_uuid(uuid)])

IsData(row) == ~row.header

\* the entries of one index file, in file order
DataRows(fs, path) ==
    IF path_exists(fs, path)
    THEN [i \in 1..Len(SelectSeq(fs[path], IsData)) |->
            deserialize_row(SelectSeq(fs[path], IsData)[i])]
    ELSE <<>>

\* all entries of the data directory
AllEntries(fs) ==
    UNION { {DataRows(fs, path)[i] : i \in DOMAIN DataRows(fs, path)} :
            path \in DOMAIN fs }

\* the session a message is about ("" for Stop and undecodable datagrams)
SessionOf(message) ==
    IF message.type \in {"Disable", "Enable"} THEN message.uuid
    ELSE IF message.type \in {"CommandStart", "CommandFinished"}
    THEN message.data.session_id
    ELSE ""

Max(set) == CHOOSE x \in set : \A y \in set : y <= x

\* position in `history` of the last message about uuid before position j
\* (0 when there is none)
PrevOf(history, uuid, j) ==
    Max({0} \cup {i \in 1..(j - 1) : SessionOf(history[i].message) = uuid})

\* a step in which process() dispatched a datagram, and what it dispatched
Dispatched == Len(log') = Len(log) + 1

Now == log'[Len(log')]

DispatchedType(type, uuid) ==
    /\ Dispatched
    /\ Now.message.type = type
    /\ SessionOf(Now.message) = uuid

IsAccepted(e, type, uuid) ==
    /\ e.message.type = type
    /\ SessionOf(e.message) = uuid
    /\ e.err = "Ok"

----------------------------------------------------------------------------
(* C1..C10 *)

\* the entry the daemon has to write for a start and its finish
PairedEntry(start, finish) ==
    [time_finished |-> finish.time_stamp,
     time_start    |-> start.time_stamp,
     hostname      |-> trim(start.hostname),
     command       |-> entry_command(start.command),
     pwd           |-> start.pwd,
     result        |-> finish.result,
     session_id    |-> start.session_id,
     user          |-> trim(start.user)]

\* C1: when CommandFinished(S) is dispatched and the last message about S
\* was a CommandStart(S) that was accepted (S was neither pending nor
\* disabled) and whose command is not empty after trimming, the handler
\* succeeds, exactly one entry is appended, to the index file of the start's
\* hostname, with session id, start time, pwd, user, hostname and command of
\* the start (normalised as Entry::from_messages does) and finish time and
\* result of the finish, every other file is unchanged, and S is no longer
\* pending.
C1_PairAppendsOneEntry ==
    [][\A uuid \in Sessions :
        LET i == PrevOf(log, uuid, Len(log) + 1) IN
        (/\ DispatchedType("CommandFinished", uuid)
         /\ i > 0
         /\ IsAccepted(log[i], "CommandStart", uuid)
         /\ entry_command(log[i].message.data.command) # <<>>)
        => LET start == log[i].message.data
               path == index_path(trim(start.hostname))
           IN /\ Now.err = "Ok"
              /\ DOMAIN files' = DOMAIN files \cup {path}
              /\ DataRows(files', path) =
                    Append(DataRows(files, path),
                           PairedEntry(start, Now.message.data))
              /\ \A other \in DOMAIN files \ {path} :
                    files'[other] = files[other]
              /\ ~Pending(uuid)'
              /\ Pending(uuid)
    ]_vars

\* C1 witness: an accepted start with trailing whitespace in its command,
\* directly followed (for its session) by a finish that was paired with it
C1_Witness ==
    \E j \in DOMAIN log : \E uuid \in Sessions :
        LET i == PrevOf(log, uuid, j) IN
        /\ IsAccepted(log[j], "CommandFinished", uuid)
        /\ i > 0
        /\ IsAccepted(log[i], "CommandStart", uuid)
        /\ entry_command(log[i].message.data.command) # <<>>
        /\ entry_command(log[i].message.data.command)
                # log[i].message.data.command
        /\ PairedEntry(log[i].message.data, log[j].message.data)
                \in AllEntries(files)

\* C2: every entry in an index file has a non-empty command, and a
\* CommandStart and a later CommandFinished of the entry's session have been
\* dispatched.
C2_EntryHasStartAndFinish ==
    \A entry \in AllEntries(files) :
        /\ entry.command # <<>>
        /\ \E i \in DOMAIN log : \E j \in DOMAIN log :
            /\ i < j
            /\ log[i].message.type = "CommandStart"
            /\ log[j].message.type = "CommandFinished"
            /\ SessionOf(log[i].message) = entry.session_id
            /\ SessionOf(log[j].message) = entry.session_id

\* C2 witness: two sessions have an entry in the index
C2_Witness ==
    \A uuid \in Sessions :
        \E entry \in AllEntries(files) : entry.session_id = uuid

\* C3: a CommandStart(S) dispatched while S is pending fails with
\* SessionCommandAlreadyStarted and leaves the entries tree as it was; and
\* the tree never holds two starts of one session.
C3_StartWhilePendingRejected ==
    [][/\ \A uuid \in Sessions :
            (DispatchedType("CommandStart", uuid) /\ Pending(uuid))
            => /\ Now.err = "SessionCommandAlreadyStarted"
               /\ entries' = entries
               /\ PendingStart(uuid)' = PendingStart(uuid)
       /\ \A uuid \in Sessions :
            Cardinality({key \in DOMAIN entries' :
                deserialize_entry(entries'[key]).session_id = uuid}) <= 1
    ]_vars

\* C3 witness: a start was rejected because its session was pending, and the
\* session is still pending with the older start
C3_Witness ==
    \E j \in DOMAIN log : \E uuid \in Sessions :
        /\ log[j].message.type = "CommandStart"
        /\ SessionOf(log[j].message) = uuid
        /\ log[j].err = "SessionCommandAlreadyStarted"
        /\ Pending(uuid)
        /\ PendingStart(uuid).time_stamp < log[j].message.data.time_stamp

\* C4: no session is at once in the entries tree and in the
\* disabled_sessions tree.
C4_PendingDisabledDisjoint ==
    \A uuid \in Sessions : ~(Pending(uuid) /\ Disabled(uuid))

\* C4 witness: a pending session has been disabled, and a start has been
\* sent to a disabled session
C4_Witness ==
    /\ \E j \in DOMAIN log : \E uuid \in Sessions :
        LET i == PrevOf(log, uuid, j) IN
        /\ log[j].message.type = "Disable"
        /\ SessionOf(log[j].message) = uuid
        /\ i > 0
        /\ IsAccepted(log[i], "CommandStart", uuid)
        /\ Disabled(uuid)
    /\ \E j \in DOMAIN log :
        /\ log[j].message.type = "CommandStart"
        /\ log[j].err = "DisabledSession"

\* C5: a CommandStart(S) or CommandFinished(S) dispatched while S is
\* disabled fails with DisabledSession and changes neither the database nor
\* the index; and when the last messages about S are Disable, CommandStart,
\* CommandFinished in this order, start and finish are both rejected and the
\* finish appends nothing (no entry of S at all when they are the only
\* messages about S).
C5_DisabledSessionRejected ==
    [][\A uuid \in Sessions :
        /\ ((DispatchedType("CommandStart", uuid)
                \/ DispatchedType("CommandFinished", uuid))
            /\ Disabled(uuid))
           => /\ Now.err = "DisabledSession"
              /\ UNCHANGED dbvars
              /\ ~Pending(uuid)'
        /\ LET i == PrevOf(log, uuid, Len(log) + 1)
               h == PrevOf(log, uuid, i)
           IN (/\ DispatchedType("CommandFinished", uuid)
               /\ h > 0
               /\ log[h].message.type = "Disable"
               /\ log[i].message.type = "CommandStart")
              => /\ Now.err = "DisabledSession"
                 /\ log[i].err = "DisabledSession"
                 /\ files' = files
                 /\ PrevOf(log, uuid, h) = 0
                    => \A entry \in AllEntries(files') :
                            entry.session_id # uuid
    ]_vars

\* C5 witness: Disable(S), CommandStart(S), CommandFinished(S) are the only
\* messages about S and have all been dispatched
C5_Witness ==
    \E j \in DOMAIN log : \E uuid \in Sessions :
        LET i == PrevOf(log, uuid, j)
            h == PrevOf(log, uuid, i)
        IN /\ log[j].message.type = "CommandFinished"
           /\ SessionOf(log[j].message) = uuid
           /\ h > 0
           /\ log[i].message.type = "CommandStart"
           /\ log[h].message.type = "Disable"
           /\ PrevOf(log, uuid, h) = 0
           /\ Disabled(uuid)

\* C6: a CommandFinished(S) dispatched while S is neither disabled nor
\* pending fails with SessionCommandNotStarted and changes neither the
\* entries tree, nor the disabled_sessions tree, nor any index file.
C6_FinishWithoutStartRejected ==
    [][\A uuid \in Sessions :
        (/\ DispatchedType("CommandFinished", uuid)
         /\ ~Disabled(uuid)
         /\ ~Pending(uuid))
        => /\ Now.err = "SessionCommandNotStarted"
           /\ files' = files
           /\ entries' = entries
           /\ disabled_sessions' = disabled_sessions
    ]_vars

\* C6 witness: a finish was rejected with SessionCommandNotStarted while the
\* index holds entries and another session is pending
C6_Witness ==
    \E j \in DOMAIN log :
        /\ log[j].message.type = "CommandFinished"
        /\ log[j].err = "SessionCommandNotStarted"
        /\ AllEntries(files) # {}
        /\ \E uuid \in Sessions : Pending(uuid)

\* the accepted starts that a Disable has discarded: the next message about
\* their session was a Disable
DiscardedStarts(history) ==
    { history[i].message.data : i \in
        { j \in DOMAIN history :
            /\ history[j].message.type = "CommandStart"
            /\ history[j].err = "Ok"
            /\ \E k \in DOMAIN history :
                /\ history[k].message.type = "Disable"
                /\ PrevOf(history, SessionOf(history[j].message), k) = j
                /\ SessionOf(history[k].message) = SessionOf(history[j].message) } }

\* C7: after a Disable(S) has been dispatched, whether S was pending or not,
\* S is disabled and not pending; and no index file ever holds an entry
\* made from a start that a Disable has discarded.
C7_DisableDiscardsPending ==
    [][/\ \A uuid \in Sessions :
            DispatchedType("Disable", uuid)
            => /\ Disabled(uuid)'
               /\ ~Pending(uuid)'
               /\ files' = files
       /\ \A start \in DiscardedStarts(log') :
            \A entry \in AllEntries(files') :
                ~(/\ entry.session_id = start.session_id
                  /\ entry.time_start = start.time_stamp)
    ]_vars

\* C7 witness: a pending start was discarded by Disable and a finish of its
\* session came afterwards; another session was disabled while absent
C7_Witness ==
    \E start \in DiscardedStarts(log) :
        /\ \E j \in DOMAIN log :
            /\ log[j].message.type = "CommandFinished"
            /\ SessionOf(log[j].message) = start.session_id
            /\ log[j].message.data.time_stamp > start.time_stamp
        /\ \E j \in DOMAIN log :
            /\ log[j].message.type = "Disable"
            /\ log[j].err = "EntryNotExist"
            /\ Disabled(SessionOf(log[j].message))

\* C8: a dispatched Enable(S) leaves S not disabled and changes neither the
\* entries tree nor the index, so a pending S stays pending; and when the
\* last messages about S are an accepted CommandStart, Disable, Enable and
\* CommandFinished in this order, the finish fails with
\* SessionCommandNotStarted and appends nothing.
C8_EnableRestoresNothing ==
    [][\A uuid \in Sessions :
        /\ DispatchedType("Enable", uuid)
           => /\ ~Disabled(uuid)'
              /\ entries' = entries
              /\ files' = files
              /\ Pending(uuid) => Pending(uuid)'
              /\ Now.err = "Ok"
        /\ LET i == PrevOf(log, uuid, Len(log) + 1)
               h == PrevOf(log, uuid, i)
               g == PrevOf(log, uuid, h)
           IN (/\ DispatchedType("CommandFinished", uuid)
               /\ g > 0
               /\ IsAccepted(log[g], "CommandStart", uuid)
               /\ log[h].message.type = "Disable"
               /\ log[i].message.type = "Enable")
              => /\ Now.err = "SessionCommandNotStarted"
                 /\ files' = files
                 /\ ~Pending(uuid)'
    ]_vars

\* C8 witness: CommandStart(S) accepted, Disable(S), Enable(S),
\* CommandFinished(S) have been dispatched in this order
C8_Witness ==
    \E j \in DOMAIN log : \E uuid \in Sessions :
        LET i == PrevOf(log, uuid, j)
            h == PrevOf(log, uuid, i)
            g == PrevOf(log, uuid, h)
        IN /\ log[j].message.type = "CommandFinished"
           /\ SessionOf(log[j].message) = uuid
           /\ g > 0
           /\ IsAccepted(log[g], "CommandStart", uuid)
           /\ log[h].message.type = "Disable"
           /\ log[i].message.type = "Enable"

C10_DrainDiscipline == ppc = "done" => channel = <<>>

----------------------------------------------------------------------------
(* C11..C20 *)

\* C11: once the receiver has received a Stop datagram, the stop flag gets
\* set, the receiver thread and the processor thread end, run() returns and
\* the socket file is removed (the threads being scheduled fairly; the
\* self-Stop is delivered whenever the socket is still open).
C11_GracefulShutdownTerminates ==
    (rpc = "send" /\ rbuf = encode(Stop))
        ~> (stopping /\ rpc = "done" /\ ppc = "done" /\ spc = "returned")

\* C11 witness: a Stop of the shell was dispatched after an entry had been
\* written, both threads have ended and run() has returned
C11_Witness ==
    /\ spc = "returned"
    /\ rpc = "done"
    /\ ppc = "done"
    /\ stopping
    /\ files # EmptyTree
    /\ \E i \in DOMAIN log : log[i].message.type = "Stop"

\* the datagrams that were delivered on the socket and have not gone into
\* the channel: the one in the receiver's hand, then those unread
Unread == (IF rbuf = <<>> THEN <<>> ELSE <<rbuf>>) \o socket

\* the datagrams of the hooks carry the time at which the client sent them
IsStamped(data) ==
    decode(data).message.type \in {"CommandStart", "CommandFinished"}

Stamp(data) == decode(data).message.data.time_stamp

\* C12: when a termination signal has started the shutdown (no Stop has
\* been dispatched) and run() has returned, the daemon has done with the
\* datagrams delivered before the signal what it does with the datagrams
\* delivered before a peer's Stop: it has read every one of them from the
\* socket and handed it to the processor, so that index and database are
\* those the peer-Stop path leaves for the same datagrams.
C12_SignalShutdownLikePeerStop ==
    (/\ spc = "returned"
     /\ signals # <<>>
     /\ \A i \in DOMAIN log : log[i].message.type # "Stop")
    => \A i \in DOMAIN Unread :
            IsStamped(Unread[i]) => Stamp(Unread[i]) >= signals[1]

\* the delivery times of the hook datagrams among `datagrams`, in order
Stamps(datagrams) ==
    LET stamped == SelectSeq(datagrams, IsStamped)
    IN [i \in 1..Len(stamped) |-> Stamp(stamped[i])]

\* the delivery times of the hook datagrams process() has dispatched
LogStamps ==
    LET IsHook(e) == e.message.type \in {"CommandStart", "CommandFinished"}
        hooks == SelectSeq(log, IsHook)
    IN [i \in 1..Len(hooks) |-> hooks[i].message.data.time_stamp]

Ascending(seq) == \A i \in DOMAIN seq : \A j \in DOMAIN seq :
    i < j => seq[i] < seq[j]

\* the finish times of the entries of one index file, in file order
FinishTimes(fs, path) ==
    [i \in DOMAIN DataRows(fs, path) |-> DataRows(fs, path)[i].time_finished]

\* C13: the datagrams pass through the daemon in the order of their
\* delivery on the socket (those dispatched, then those in the channel, then
\* the one in the receiver's hand, then those unread on the socket), and in
\* every index file the entries stand in the order in which their
\* CommandFinished datagrams were delivered.
C13_IndexInDeliveryOrder ==
    /\ Ascending(LogStamps \o Stamps(channel) \o Stamps(Unread))
    /\ \A path \in DOMAIN files : Ascending(FinishTimes(files, path))

\* C13 witness: an index file holds two entries, and their finishes were
\* dispatched after other datagrams
C13_Witness ==
    /\ \E path \in DOMAIN files : Len(DataRows(files, path)) >= 2
    /\ Len(LogStamps) >= 4

\* the daemon has been restarted after position i of the history
RestartedSince(i) ==
    \E r \in (i + 1)..Len(log) : log[r].message.type = "Restart"

C14_WitnessDisabled ==
    \E j \in DOMAIN log : \E uuid \in Sessions :
        LET i == PrevOf(log, uuid, j) IN
        /\ log[j].message.type = "CommandStart"
        /\ SessionOf(log[j].message) = uuid
        /\ log[j].err = "DisabledSession"
        /\ i > 0
        /\ log[i].message.type = "Disable"
        /\ \E r \in (i + 1)..(j - 1) : log[r] = RestartMark

\* the datagrams the processor has taken from the channel so far: those
\* whose handler has ended and the one whose handler is under way
Taken ==
    [i \in DOMAIN log |-> encode(log[i].message)]
        \o (IF pdata = NoData THEN <<>> ELSE <<pdata.data>>)

\* the database after process() has handled `datagrams` completely
RECURSIVE DbAfter(_, _)
DbAfter(db, datagrams) ==
    IF datagrams = <<>> THEN db
    ELSE DbAfter(process(db, EmptyTree, Head(datagrams)).db, Tail(datagrams))

\* the step-by-step handlers leave what process() leaves
StepwiseAgrees ==
    pdata = NoData
    => Db = DbAfter([entries |-> EmptyTree, disabled_sessions |-> EmptyTree],
                    Taken)

\* C15: whenever the daemon is killed, the persisted entries tree and
\* disabled_sessions tree are those that processing some prefix of the
\* datagrams taken so far, each completely, leaves.
C15_CrashConsistency ==
    ppc = "killed"
    => \E k \in 0..Len(Taken) :
            Db = DbAfter([entries |-> EmptyTree,
                          disabled_sessions |-> EmptyTree],
                         SubSeq(Taken, 1, k))

----------------------------------------------------------------------------
(* C16..C20: the index store and the filter *)

\* how often entry occurs in list
Count(list, entry) == Cardinality({i \in DOMAIN list : list[i] = entry})

Elements(list) == {list[i] : i \in DOMAIN list}

\* the step writes an entry to the store: add_entry, or add of an entry
\* with a command
Writes ==
    \/ call'.op = "add_entry"
    \/ call'.op = "add" /\ call'.entry.command # <<>>

\* C16: whatever the data directory holds, as long as all of it can be
\* read: after an entry E is written, get_entries with the default filter
\* succeeds and returns E exactly once more than before the write and every
\* other entry exactly as often as before.
C16_StoreRoundTrip ==
    [][ Writes =>
            LET before == get_entries(files, DefaultFilter)
                after  == get_entries(files', DefaultFilter)
            IN before.err = "Ok" =>
                /\ after.err = "Ok"
                /\ \A entry \in Elements(before.entries)
                                  \cup Elements(after.entries)
                                  \cup {call'.entry} :
                        Count(after.entries, entry)
                            = Count(before.entries, entry)
                                + (IF entry = call'.entry THEN 1 ELSE 0)
      ]_vars

\* one header row, the first row, and data rows after it
WellFormed(rows) ==
    /\ rows # <<>>
    /\ rows[1].header
    /\ \A i \in 2..Len(rows) : ~rows[i].header

\* the rows a step has appended to the index file at path
Appended(path) ==
    SubSeq(files'[path],
           (IF path_exists(files, path) THEN Len(files[path]) ELSE 0) + 1,
           Len(files'[path]))

\* the write of a step: the header row iff the index file did not exist,
\* then the data row of the entry, at the end of the index file of its
\* host, and nothing else
WritesHeaderIffNew ==
    LET path == index_path(call'.entry.hostname)
    IN /\ path_exists(files', path)
       /\ path_exists(files, path) =>
            SubSeq(files'[path], 1, Len(files[path])) = files[path]
       /\ (\E i \in DOMAIN Appended(path) : Appended(path)[i].header)
            <=> ~path_exists(files, path)
       /\ Appended(path) =
            (IF path_exists(files, path) THEN <<>> ELSE <<HeaderRow>>)
                \o <<serialize_row(call'.entry)>>
       /\ \A other \in DOMAIN files' \ {path} :
            path_exists(files, other) /\ files'[other] = files[other]

\* C17: add writes the header row iff the index file did not exist before
\* the call, and an entry without a command writes nothing; after an add
\* has written, the <hostname>.csv file of the entry is one header row, its
\* first row, followed by data rows, the row of the entry at its end.
C17_OneHeaderRowPerIndexFile ==
    [][ /\ Writes => WritesHeaderIffNew
        /\ (call'.op = "add" /\ call'.entry.command = <<>>) => files' = files
        /\ Writes => WellFormed(files'[index_path(call'.entry.hostname)])
      ]_vars

\* the first half of C17 alone
WritesAsDescribed ==
    [][ /\ Writes => WritesHeaderIffNew
        /\ (call'.op = "add" /\ call'.entry.command = <<>>) => files' = files
      ]_vars

\* no entry is followed by a smaller one
Ordered(list) == \A i \in 1..(Len(list) - 1) : ~entry_lt(list[i + 1], list[i])

\* sub is what is left of list when some of its elements are taken out
RECURSIVE IsSubsequence(_, _)
IsSubsequence(sub, list) ==
    IF sub = <<>> THEN TRUE
    ELSE IF list = <<>> THEN FALSE
    ELSE IF sub[1] = list[1] THEN IsSubsequence(Tail(sub), Tail(list))
    ELSE IsSubsequence(sub, Tail(list))

\* the last call was a get_entries that succeeded
GotEntries == call.op = "get_entries" /\ call.result.err = "Ok"

\* the entries the last get_entries has read, in the order of the files
ReadEntries == read_entries(files, call.filter).entries

\* C18: the entries get_entries returns are in ascending order of
\* (time_finished, time_start, hostname, command, pwd, result, session_id,
\* user), a total order; they are a subsequence of the entries read put in
\* that order: filtering takes entries out and moves none.
C18_GetEntriesSorted ==
    GotEntries =>
        /\ \A a, b \in Elements(ReadEntries) :
                (a = b) <=> (~entry_lt(a, b) /\ ~entry_lt(b, a))
        /\ Ordered(call.result.entries)
        /\ Ordered(sort(ReadEntries))
        /\ \A entry \in Elements(ReadEntries) \cup Elements(sort(ReadEntries)) :
                Count(sort(ReadEntries), entry) = Count(ReadEntries, entry)
        /\ IsSubsequence(call.result.entries, sort(ReadEntries))

\* entries read out of order, a filter that has taken some out, and two
\* entries returned that only the command tells apart
C18_Witness ==
    /\ GotEntries
    /\ ~Ordered(ReadEntries)
    /\ Len(call.result.entries) < Len(ReadEntries)
    /\ \E i \in 1..(Len(call.result.entries) - 1) :
        LET a == call.result.entries[i]
            b == call.result.entries[i + 1]
        IN /\ a.time_finished = b.time_finished
           /\ a.time_start = b.time_start
           /\ a.hostname = b.hostname
           /\ a.command # b.command

\* the entries read that pass every predicate of the last filter, in
\* ascending order
Passing ==
    LET Passes(entry) == entry_passes(call.filter, entry)
    IN SelectSeq(sort(ReadEntries), Passes)

\* C19: with count = N > 0 the entries returned are the last min(N, k) of
\* the k entries that pass the other predicates, in their ascending order;
\* with count = 0 they are all k.
C19_CountTakesLast ==
    GotEntries =>
        LET k == Len(Passing)
            N == call.filter.count
        IN IF N > 0
           THEN call.result.entries
                    = SubSeq(Passing, k - (IF N < k THEN N ELSE k) + 1, k)
           ELSE call.result.entries = Passing

\* a count smaller than the number of passing entries, which differ
C19_Witness ==
    /\ GotEntries
    /\ call.filter.count > 0
    /\ Len(Passing) > call.filter.count
    /\ Passing[1] # Passing[Len(Passing)]
    /\ Len(call.result.entries) = call.filter.count

\* the last call was filter_command
Filtered == call.op = "filter_command"

\* a segment of text starts at position i: at the start of the text or
\* behind a '|'
SegmentStart(text, i) == i = 1 \/ text[i - 1] = "|"

\* literal is a token: not empty and free of whitespace and of '|'
IsToken(literal) ==
    /\ literal # <<>>
    /\ \A j \in DOMAIN literal : ~IsWhitespace(literal[j]) /\ literal[j] # "|"

\* literal stands in text at position i and ends a token there
TokenAt(text, literal, i) ==
    /\ i + Len(literal) - 1 <= Len(text)
    /\ SubSeq(text, i, i + Len(literal) - 1) = literal
    /\ \/ i + Len(literal) > Len(text)
       \/ IsWhitespace(text[i + Len(literal)])
       \/ text[i + Len(literal)] = "|"

\* some segment of text split on '|' has literal as its first
\* whitespace-delimited token: only whitespace lies between the start of
\* the segment and the literal
HasFirstToken(text, literal) ==
    /\ IsToken(literal)
    /\ \E start \in 1..(Len(text) + 1) :
        /\ SegmentStart(text, start)
        /\ \E i \in start..Len(text) :
            /\ \A j \in start..(i - 1) : IsWhitespace(text[j])
            /\ TokenAt(text, literal, i)

\* the positions at which literal occurs in text
Occurrences(text, literal) ==
    {i \in 1..(Len(text) - Len(literal) + 1) :
        SubSeq(text, i, i + Len(literal) - 1) = literal}

\* position i of text lies between an opening and a closing quote
InQuotes(text, i) ==
    /\ Cardinality({j \in 1..(i - 1) : text[j] = "'"}) % 2 = 1
    /\ \E j \in (i + 1)..Len(text) : text[j] = "'"

\* literal occurs in text, and inside quotes only
OnlyInQuotes(text, literal) ==
    /\ literal # <<>>
    /\ Occurrences(text, literal) # {}
    /\ \A i \in Occurrences(text, literal) : InQuotes(text, i)

\* C20 as stated: the command filter matches iff some segment of the
\* command split on '|' has the literal as its first whitespace-delimited
\* token; a literal that occurs only inside quotes does not match; the
\* empty command matches no literal.
C20_QuotedLiteralNeverMatches ==
    Filtered =>
        /\ call.result = HasFirstToken(call.entry_command, call.command)
        /\ OnlyInQuotes(call.entry_command, call.command) => ~call.result
        /\ call.entry_command = <<>> => ~call.result

\* C20: the command filter matches iff some segment of the command split
\* on '|' has the literal as its first whitespace-delimited token, quotes
\* being characters like any other: a literal that occurs only as an
\* argument or behind another first token does not match, and neither
\* does any literal the empty command.
C20_FirstTokenOfSegment ==
    Filtered =>
        /\ call.result = HasFirstToken(call.entry_command, call.command)
        /\ (\A i \in Occurrences(call.entry_command, call.command) :
                \E j \in 1..(i - 1) :
                    /\ ~IsWhitespace(call.entry_command[j])
                    /\ \A n \in j..(i - 1) : call.entry_command[n] # "|")
            => ~call.result
        /\ call.entry_command = <<>> => ~call.result

\* a match in a segment behind the first, whose first token is another,
\* and behind whitespace
C20_Witness ==
    /\ Filtered
    /\ call.result
    /\ call.command = <<"t">>
    /\ \E i \in 3..Len(call.entry_command) :
        /\ call.entry_command[1] = "e"
        /\ call.entry_command[i - 2] = "|"
        /\ call.entry_command[i - 1] = " "
        /\ TokenAt(call.entry_command, call.command, i)

----------------------------------------------------------------------------
(* C21..C30 *)

\* the entries read that pass the predicates of the last filter other than
\* the failed option, in ascending order
PassingOthers ==
    LET Passes(entry) == entry_passes([call.filter EXCEPT !.failed = FALSE], entry)
    IN SelectSeq(sort(ReadEntries), Passes)

HasResultZero(entry) == entry.result = 0

\* C21: with the failed option set, the entries returned (before count
\* cuts them) are exactly the entries with result 0 among those that pass
\* the other predicates; without it they are all of those.
C21_FailedKeepsResultZero ==
    (GotEntries /\ call.filter.count = 0) =>
        IF call.filter.failed
        THEN call.result.entries = SelectSeq(PassingOthers, HasResultZero)
        ELSE call.result.entries = PassingOthers

\* the failed option with another predicate: of the entries that pass the
\* other one, one with result 0 is kept and one with another result is
\* dropped, and an entry with result 0 fails the other predicate
C21_Witness ==
    /\ GotEntries
    /\ call.filter.failed
    /\ call.filter.session # None
    /\ call.result.entries # <<>>
    /\ \E i \in DOMAIN PassingOthers : PassingOthers[i].result # 0
    /\ \E i \in DOMAIN ReadEntries :
        /\ ReadEntries[i].result = 0
        /\ ReadEntries[i] \notin Elements(PassingOthers)

\* the files of fs at the given paths
Only(fs, paths) == [path \in DOMAIN fs \cap paths |-> fs[path]]

IsIndexPath(path) ==
    /\ \E name \in {SubSeq(path, Len(data_dir) + 2, Len(path))} :
            /\ path = data_dir \o <<"/">> \o name
            /\ \A i \in DOMAIN name : name[i] # "/"
    /\ ends_with(path, <<".", "c", "s", "v">>)

\* the entries in the rows behind the first of the file at path
RowsBehindFirst(fs, path) ==
    {deserialize_row(fs[path][i]) : i \in 2..Len(fs[path])}

\* C22: get_entries with a hostname H reads the index file of H and no
\* other and fails when that file does not exist; without a hostname it
\* reads every *.csv file of the data directory and no other file, and it
\* returns no entry and no error when there is no *.csv file and when the
\* *.csv files that exist are empty.
C22_HostnameSelectsIndexFile ==
    call.op = "get_entries" =>
        IF call.filter.hostname # None
        THEN LET path == index_path(call.filter.hostname[1])
             IN /\ ~path_exists(files, path) => call.result.err = "OpenIndexFile"
                /\ path_exists(files, path) =>
                    /\ call.result = get_entries(Only(files, {path}), call.filter)
                    /\ Elements(call.result.entries) \subseteq RowsBehindFirst(files, path)
        ELSE LET paths == {path \in DOMAIN files : IsIndexPath(path)}
             IN /\ call.result = get_entries(Only(files, paths), call.filter)
                /\ Elements(call.result.entries)
                        \subseteq UNION {RowsBehindFirst(files, path) : path \in paths}
                /\ (call.result.err = "Ok" /\ call.filter.count = 0) =>
                        \A path \in paths : \A entry \in RowsBehindFirst(files, path) :
                            entry_passes(call.filter, entry)
                                => entry \in Elements(call.result.entries)
                /\ (\A path \in paths : files[path] = <<>>) =>
                        call.result = [err |-> "Ok", entries |-> <<>>]

\* a hostname without an index file, in a data directory that has index
\* files with entries: the call fails
C22_Witness ==
    /\ call.op = "get_entries"
    /\ call.filter.hostname # None
    /\ ~path_exists(files, index_path(call.filter.hostname[1]))
    /\ \E path \in DOMAIN files : IsIndexPath(path) /\ Len(files[path]) >= 2
    /\ call.result.err # "Ok"

\* a hostname whose index file reads well beside an index file that does
\* not: the call succeeds
C22_WitnessOnlyOneFile ==
    /\ GotEntries
    /\ call.filter.hostname # None
    /\ call.result.entries # <<>>
    /\ get_entries(files, DefaultFilter).err # "Ok"

\* no hostname and an empty index file as the only one: no entry, no error
C22_WitnessEmptyFile ==
    /\ GotEntries
    /\ call.filter.hostname = None
    /\ \E path \in DOMAIN files : IsIndexPath(path) /\ files[path] = <<>>
    /\ call.result.entries = <<>>

\* no hostname and a file that is no index beside the index files: its
\* entries are not returned
C22_WitnessOtherFile ==
    /\ GotEntries
    /\ call.filter = DefaultFilter
    /\ call.result.entries # <<>>
    /\ \E path \in DOMAIN files : ~IsIndexPath(path) /\ Len(files[path]) >= 2

\* the hostname of the last call is written and read back: the one file of
\* the data directory is data_dir/<hostname>.csv, it holds the entry, and a
\* different hostname does not read it
HostnameHasItsFile ==
    /\ call.err = "Ok"
    /\ DOMAIN files
        = {data_dir \o <<"/">> \o call.hostname \o <<".", "c", "s", "v">>}
    /\ call.own = [err |-> "Ok", entries |-> <<HostEntry(call.hostname)>>]
    /\ call.hostname # call.other => call.theirs.entries = <<>>

HasSlash(text) == \E i \in DOMAIN text : text[i] = "/"

\* C23: for every hostname H the index file is data_dir/H.csv, dots or
\* not: what add_entry writes for H is what get_entries reads for H, and
\* get_entries for a different hostname does not read it.
C23_IndexPathOfHostname ==
    (call.op = "get_entries" /\ "own" \in DOMAIN call) => HostnameHasItsFile

\* C23 for the hostnames without a slash
DottedHostnameHasItsFile ==
    (/\ call.op = "get_entries" /\ "own" \in DOMAIN call
     /\ ~HasSlash(call.hostname) /\ ~HasSlash(call.other))
        => HostnameHasItsFile

LoopLeft == ppc \in {"drain", "drop", "return", "done"}

\* C25: a datagram that fails to decode and a message that is rejected
\* leave the processor where it was, in its main loop or draining, so that
\* it takes the next datagram; the main loop is left only with the stop
\* flag set, which no error sets; and a datagram that fails to decode
\* changes neither the pending starts nor the disabled sessions nor the
\* index nor the stop flag.
C25_ErrorsDoNotStopProcessor ==
    [][ /\ (Dispatched /\ Now.err # "Ok") =>
            /\ ppc' = (IF ppc = "process" THEN "check" ELSE "drain")
            /\ stopping' = stopping
        /\ (Dispatched /\ Now.err = "DeserializeMessage") =>
            UNCHANGED <<entries, disabled_sessions, files, stopping>>
        /\ LoopLeft' => stopping'
      ]_vars

\* the processor is in its main loop after bytes that were no message and
\* a rejected message, and has accepted a start behind both
C25_Witness ==
    /\ ~stopping
    /\ ~LoopLeft
    /\ Pending("s1")
    /\ \E i, j, k \in DOMAIN log :
        /\ i < k /\ j < k
        /\ log[i].err = "DeserializeMessage"
        /\ log[j].err \notin {"Ok", "DeserializeMessage"}
        /\ log[k].err = "Ok" /\ log[k].message.type = "CommandStart"

\* the finish at position i of the log failed at the store
StoreFailed(history, i) ==
    /\ history[i].message.type = "CommandFinished"
    /\ history[i].err = "AddStore"

\* C26: when the store fails while a CommandFinished of session S is
\* handled, the pending start of S is gone and the index is as it was, the
\* processor stays in its loop with the stop flag unchanged, no later step
\* writes the entry of that finish, and a CommandStart of S that comes next
\* for S is accepted.
C26_StoreFailureLosesEntry ==
    [][ /\ \A uuid \in Sessions :
            (DispatchedType("CommandFinished", uuid) /\ Now.err = "AddStore") =>
                /\ Pending(uuid)
                /\ ~Pending(uuid)'
                /\ files' = files
                /\ disabled_sessions' = disabled_sessions
                /\ stopping' = stopping
                /\ ppc' = (IF ppc = "process" THEN "check" ELSE "drain")
        /\ \A i \in DOMAIN log' :
            StoreFailed(log', i) =>
                \A entry \in AllEntries(files') :
                    ~(/\ entry.session_id = log'[i].message.data.session_id
                      /\ entry.time_finished = log'[i].message.data.time_stamp)
        /\ \A uuid \in Sessions :
            (/\ DispatchedType("CommandStart", uuid)
             /\ PrevOf(log', uuid, Len(log')) # 0
             /\ StoreFailed(log', PrevOf(log', uuid, Len(log')))) =>
                Now.err = "Ok" /\ Pending(uuid)'
      ]_vars

\* a start, its finish failing at the store, and the next start of the
\* session accepted and pending, nothing in the index
C26_Witness ==
    /\ Len(log) = 3
    /\ IsAccepted(log[1], "CommandStart", "s1")
    /\ StoreFailed(log, 2)
    /\ IsAccepted(log[3], "CommandStart", "s1")
    /\ Pending("s1")
    /\ AllEntries(files) = {}

\* the last call of zsh_add_history had a command line that starts with a
\* space, with ignore_space set
SpaceIgnored ==
    /\ call.op = "zsh_add_history"
    /\ call.config.ignore_space
    /\ starts_with(call.command, " ")

\* data is a CommandStart with the given command
IsStartOf(data, command) ==
    /\ decode(data).ok
    /\ decode(data).message.type = "CommandStart"
    /\ decode(data).message.data.command = command

\* the command is somewhere in the daemon: in a datagram on its way, in a
\* pending start, in a message dispatched, or in the index
Known(command) ==
    \/ \E i \in DOMAIN Unread : IsStartOf(Unread[i], command)
    \/ \E i \in DOMAIN channel : IsStartOf(channel[i], command)
    \/ \E i \in DOMAIN log :
        /\ log[i].message.type = "CommandStart"
        /\ log[i].message.data.command = command
    \/ \E uuid \in Sessions :
        Pending(uuid) /\ PendingStart(uuid).command = command
    \/ \E entry \in AllEntries(files) : entry.command = command

\* C27: with ignore_space set, zsh_add_history for a command line that
\* starts with a space sends nothing and changes nothing in the daemon;
\* the command never comes to be in a datagram, a pending start or an entry
\* of the index, whatever is sent afterwards.
C27_IgnoreSpace ==
    [][ /\ SpaceIgnored' => UNCHANGED <<dbvars, stopping, socket, channel,
                                        rpc, rbuf, ppc, hpc, spc, signals,
                                        clock, sent, log, pdata>>
           \/ call' = call
        /\ ~Known(SpaceCommand)'
      ]_vars

\* the ignored command line, and the CommandFinished of its precmd
\* dispatched and rejected
C27_Witness ==
    /\ SpaceIgnored
    /\ call.command = SpaceCommand
    /\ Len(log) = 1
    /\ log[1].message.type = "CommandFinished"
    /\ log[1].err = "SessionCommandNotStarted"

\* a command line with a leading space is recorded when ignore_space is off
C27_WitnessRecorded ==
    \E entry \in AllEntries(files) : starts_with(entry.command, " ")

\* the rows of the shorter file are the first rows of the longer
IsPrefixOf(short, long) ==
    /\ Len(short) <= Len(long)
    /\ SubSeq(long, 1, Len(short)) = short

\* C28: the index is append-only: no step of the daemon removes an index
\* file, and the rows of every index file after the step begin with its
\* rows before the step.
C28_IndexAppendOnly ==
    [][ \A path \in DOMAIN files :
            /\ path \in DOMAIN files'
            /\ IsPrefixOf(files[path], files'[path]) ]_vars

\* an index file that was written to twice, with both entries in it
C28_Witness ==
    \E path \in DOMAIN files :
        /\ Len(files[path]) >= 3
        /\ files[path][1] = HeaderRow
        /\ ~files[path][2].header
        /\ ~files[path][3].header

\* an index file with an entry, and a Disable, Enable or Stop handled after
\* the entry was written
C28_WitnessOtherMessage ==
    /\ \E path \in DOMAIN files : Len(files[path]) >= 2
    /\ Len(log) >= 3
    /\ log[Len(log)].message.type \in {"Disable", "Enable", "Stop"}
    /\ log[Len(log) - 1].message.type = "CommandFinished"
    /\ log[Len(log) - 1].err = "Ok"

\* C29 as stated: once the Server is built, run() never fails.
C29_RunNeverFails == spc \notin RunErrors

\* a thread has left its loop
Ended(pc) == pc \in {"drop", "return", "done"}

\* C29 amended: run() fails in two places only: with SetupCtrlHandler
\* before it waits, and with RemoveSocket after both threads have ended on
\* the stop flag.  No other step, whatever error it logs, changes the
\* position of run() or ends a thread while the stop flag is unset, and
\* run() returns once both threads have ended.
C29_RunFailsOnlyAtWatchOrRemove ==
    [][ /\ spc' # spc =>
            \/ spc = "watch" /\ spc' \in {"wait", "SetupCtrlHandler"}
            \/ /\ spc = "wait" /\ spc' = "remove"
               /\ stopping /\ Ended(rpc) /\ Ended(ppc)
            \/ spc = "remove" /\ spc' \in {"returned", "RemoveSocket"}
        /\ (Ended(rpc') /\ ~Ended(rpc)) => stopping
        /\ (Ended(ppc') /\ ~Ended(ppc)) => stopping
        /\ Len(log') > Len(log) =>
            /\ spc' = spc
            /\ ~Ended(ppc') \/ Ended(ppc)
      ]_vars

\* run() has returned Ok after a shutdown, and the processor had logged the
\* error of a handler before
C29_Witness ==
    /\ spc = "returned"
    /\ \E i \in DOMAIN log : log[i].err # "Ok"

\* run() has failed after the shutdown
C29_WitnessRemoveSocket ==
    /\ spc = "RemoveSocket"
    /\ stopping

\* run() has failed while the threads run
C29_WitnessSetupCtrlHandler ==
    /\ spc = "SetupCtrlHandler"
    /\ log # <<>>

\* a datagram is put on the socket by the daemon itself: the self-Stop of
\* the processor or of the signal handler
SelfStopSent == Len(socket') > Len(socket) /\ sent' = sent

\* C30: the stop flag is set before the self-Stop is sent, by the processor
\* and by the signal handler, and is never unset; so the receiver that a
\* self-Stop has unblocked forwards it, sees the flag at its next check and
\* leaves the loop without another read.
C30_FlagBeforeSelfStop ==
    [][ /\ SelfStopSent => stopping /\ stopping'
        /\ stopping => stopping'
        /\ (stopping /\ rpc # "recv_from") => rpc' # "recv_from"
        /\ (stopping /\ rpc = "check" /\ rpc' # rpc) => rpc' = "drop"
      ]_vars

\* the only datagram of a client was a Stop and no signal came: the second
\* Stop, which the receiver forwarded before it left its loop, is the
\* self-Stop of the processor
C30_Witness ==
    /\ sent = 1
    /\ signals = <<>>
    /\ Len(log) = 1
    /\ log[1].message.type = "Stop"
    /\ channel = <<encode(Stop)>>
    /\ rpc = "drop"

\* the same for the self-Stop of the signal handler
C30_WitnessHandler ==
    /\ sent = 0
    /\ signals # <<>>
    /\ log = <<>>
    /\ channel = <<encode(Stop)>>
    /\ rpc = "drop"

(* C31..C40 *)

\* the positions of the receiver in its loop
ReceiverLoop == {"check", "recv_from", "send"}

\* the positions of the processor in its main loop
ProcessorLoop == {"check", "process"}

\* C31: the receiver and the processor leave their main loops only from the
\* check of the stop flag, and only when the flag is set; whatever fails in
\* the loop, the thread goes on with the next iteration.
C31_LoopsLeftOnlyOnStopFlag ==
    [][ /\ (rpc \in ReceiverLoop /\ rpc' \notin ReceiverLoop)
            => (stopping /\ rpc = "check")
        /\ (ppc \in ProcessorLoop /\ ppc' \notin ProcessorLoop)
            => (stopping /\ ppc = "check")
        /\ Len(log') > Len(log) /\ ppc = "process" => ppc' = "check"
      ]_vars

\* bytes that are no message and a finish without a start have been
\* logged, the flag is unset and both threads are in their loops
C31_Witness ==
    /\ ~stopping
    /\ \E i \in DOMAIN log : log[i].err = "DeserializeMessage"
    /\ \E i \in DOMAIN log : log[i].err = "SessionCommandNotStarted"
    /\ rpc = "recv_from"
    /\ ppc = "process"

\* both threads have ended after the flag was set
C31_WitnessEnded ==
    /\ stopping
    /\ rpc = "done"
    /\ ppc = "done"

\* the thread has dropped its clone of the wait group
Dropped(pc) == pc \in {"return", "done"}

\* C32: run() is past wait_group.wait(), at the removal of the socket file
\* or returned, only when the receiver and the processor have both dropped
\* their wait-group handle; while one of them has not, run() waits and the
\* socket file is there.
C32_SocketRemovedAfterWorkers ==
    /\ spc # "wait" => Dropped(rpc) /\ Dropped(ppc)
    /\ (~Dropped(rpc) \/ ~Dropped(ppc)) => spc # "returned"

\* run() has removed the socket file and returned after a shutdown in which
\* the processor drained the channel
C32_Witness ==
    /\ spc = "returned"
    /\ Dropped(rpc) /\ Dropped(ppc)
    /\ log # <<>>

\* the receiver has ended, the processor drains, run() waits
C32_WitnessWaiting ==
    /\ spc = "wait"
    /\ rpc = "done"
    /\ ppc = "drain"
    /\ channel # <<>>

\* C33: a CommandFinished(S) dispatched while S is pending leaves S not
\* pending, also when no entry is written because the command is empty; a
\* CommandStart(S) whose last message before it was that finish is accepted
\* and pending again, and no CommandStart(S) that follows a
\* CommandFinished(S) is rejected with SessionCommandAlreadyStarted.
C33_FinishFreesSession ==
    [][\A uuid \in Sessions :
        LET i == PrevOf(log, uuid, Len(log) + 1) IN
        /\ (DispatchedType("CommandFinished", uuid) /\ Pending(uuid))
            => /\ Now.err = "Ok"
               /\ ~Pending(uuid)'
               /\ command_start(Db', new_command_start(uuid, ShellInput)).err
                    = "Ok"
        /\ (/\ DispatchedType("CommandStart", uuid)
            /\ i > 0
            /\ log[i].message.type = "CommandFinished")
            => /\ Now.err # "SessionCommandAlreadyStarted"
               /\ log[i].err = "Ok" => Now.err = "Ok" /\ Pending(uuid)'
    ]_vars

\* two cycles of start and finish on one session, all four accepted, the
\* first with a command that is empty after trimming and so without entry
C33_Witness ==
    \E uuid \in Sessions :
        /\ Len(log) = 4
        /\ \A i \in 1..4 : SessionOf(log[i].message) = uuid /\ log[i].err = "Ok"
        /\ log[1].message.type = "CommandStart"
        /\ log[2].message.type = "CommandFinished"
        /\ log[3].message.type = "CommandStart"
        /\ log[4].message.type = "CommandFinished"
        /\ entry_command(log[1].message.data.command) = <<>>
        /\ entry_command(log[3].message.data.command) # <<>>
        /\ Cardinality(AllEntries(files)) = 1

\* C34 as stated: no entry of the index written by an import has an empty
\* command.
C34_ImportSkipsEmptyCommands ==
    \A entry \in AllEntries(files) : entry.command # <<>>

\* the histdb import alone writes no command that is empty after trimming
HistdbSkipsEmptyCommands ==
    call.op = "histdb" =>
        \A entry \in AllEntries(files) : trim(entry.command) # <<>>

\* the commands of the index file of the host, in file order
ImportedCommands ==
    [i \in DOMAIN DataRows(files, index_path(<<"h">>)) |->
        DataRows(files, index_path(<<"h">>))[i].command]

\* a command over two lines of the history file is imported as one entry
HistfileJoinsLines ==
    /\ call.op = "histfile"
    /\ call.err = "Ok"
    /\ ImportedCommands = << <<"l", "\n", "s", "\n">> >>

\* C35: a Disable(S) dispatched while S has no pending start fails with
\* EntryNotExist, and S is disabled afterwards: the disabled set has S
\* added if it was not in it, the pending starts and the index are as
\* before.  With a pending start the Disable succeeds.
C35_DisableWithoutStartFailsDisabled ==
    [][\A uuid \in Sessions :
        DispatchedType("Disable", uuid)
        => IF Pending(uuid)
           THEN Now.err = "Ok"
           ELSE /\ Now.err = "EntryNotExist"
                /\ Disabled(uuid)'
                /\ DOMAIN disabled_sessions' =
                        DOMAIN disabled_sessions \cup {serialize_uuid(uuid)}
                /\ entries' = entries
                /\ files' = files
    ]_vars

\* the first message about a session is a Disable that fails, and the start
\* that follows is rejected because the session is disabled
C35_Witness ==
    \E j \in DOMAIN log : \E uuid \in Sessions :
        /\ j < Len(log)
        /\ log[j].message.type = "Disable"
        /\ SessionOf(log[j].message) = uuid
        /\ PrevOf(log, uuid, j) = 0
        /\ log[j].err = "EntryNotExist"
        /\ log[j + 1].message.type = "CommandStart"
        /\ SessionOf(log[j + 1].message) = uuid
        /\ log[j + 1].err = "DisabledSession"

\* the starts that were rejected
RejectedStarts(history) ==
    { history[i].message.data : i \in
        { k \in DOMAIN history : /\ history[k].message.type = "CommandStart"
                                 /\ history[k].err # "Ok" } }

\* C36: when CommandFinished(S) is dispatched after a CommandStart(S) that
\* was rejected because S was pending, the finish is paired with the older
\* pending start: the entry appended has command, pwd and start time of the
\* older start and result and finish time of this finish.  No entry is ever
\* made from a rejected start.
C36_RejectedStartNotRecorded ==
    [][/\ \A uuid \in Sessions :
            LET i == PrevOf(log, uuid, Len(log) + 1) IN
            (/\ DispatchedType("CommandFinished", uuid)
             /\ i > 0
             /\ log[i].message.type = "CommandStart"
             /\ log[i].err = "SessionCommandAlreadyStarted")
            => LET old == PendingStart(uuid)
                   path == index_path(trim(old.hostname))
               IN /\ Pending(uuid)
                  /\ old.time_stamp < log[i].message.data.time_stamp
                  /\ Now.err = "Ok"
                  /\ ~Pending(uuid)'
                  /\ IF entry_command(old.command) = <<>>
                     THEN files' = files
                     ELSE DataRows(files', path) =
                            Append(DataRows(files, path),
                                   PairedEntry(old, Now.message.data))
       /\ \A start \in RejectedStarts(log') :
            \A entry \in AllEntries(files') :
                ~(/\ entry.session_id = start.session_id
                  /\ entry.time_start = start.time_stamp)
    ]_vars

\* a start, a second start with another command that was rejected, and the
\* finish, which wrote the entry of the first start
C36_Witness ==
    \E uuid \in Sessions :
        /\ Len(log) >= 3
        /\ \A i \in 1..3 : SessionOf(log[i].message) = uuid
        /\ IsAccepted(log[1], "CommandStart", uuid)
        /\ log[2].message.type = "CommandStart"
        /\ log[2].err = "SessionCommandAlreadyStarted"
        /\ entry_command(log[2].message.data.command)
                \notin {<<>>, entry_command(log[1].message.data.command)}
        /\ IsAccepted(log[3], "CommandFinished", uuid)
        /\ PairedEntry(log[1].message.data, log[3].message.data)
                \in AllEntries(files)

\* the position in the history of the first Stop dispatched, 0 if none
FirstStop(history) ==
    LET stops == {i \in DOMAIN history : history[i].message.type = "Stop"}
    IN IF stops = {} THEN 0
       ELSE CHOOSE i \in stops : \A j \in stops : i <= j

\* the messages of the datagrams on their way through the daemon: those
\* dispatched, those in the channel, the one in the receiver's hand and
\* those unread on the socket
Pipeline ==
    [i \in DOMAIN log |-> log[i].message]
        \o [i \in DOMAIN channel |-> decode(channel[i]).message]
        \o [i \in DOMAIN Unread |-> decode(Unread[i]).message]

\* the message is the hook datagram that was delivered as the n-th datagram
IsDelivery(message, n) ==
    /\ message.type \in {"CommandStart", "CommandFinished"}
    /\ message.data.time_stamp = n

\* C37: while no Stop has been dispatched the flag is unset, receiver and
\* processor are in their loops and run() waits, and every datagram
\* delivered stands in the daemon at its place in the order of delivery
\* (dispatched, in the channel, in the receiver's hand or unread); when a
\* Stop has been dispatched, the datagrams dispatched before it are exactly
\* those delivered before it, decoded and dispatched in the order of
\* delivery.  (One shell, `hstdb stop` at any time; the n-th datagram
\* delivered carries the time stamp n unless it is a Stop.)
C37_DeliveredBeforeStopDispatched ==
    LET k == FirstStop(log) IN
    /\ k = 0 =>
        /\ ~stopping
        /\ ~Ended(rpc) /\ ppc \in ProcessorLoop /\ spc = "wait"
        /\ Len(Pipeline) = sent
        /\ \A i \in DOMAIN Pipeline :
            Pipeline[i].type # "Stop" => IsDelivery(Pipeline[i], i)
    /\ k # 0 =>
        /\ \A i \in 1..(k - 1) : IsDelivery(log[i].message, i) /\ log[i].err = "Ok"
        /\ \A i \in DOMAIN Pipeline : ~IsDelivery(Pipeline[i], k)
    /\ (Ended(rpc) \/ Ended(ppc) \/ spc # "wait") => k # 0

\* a start and its finish were delivered before the Stop, the daemon has
\* exited and the entry is in the index
C37_Witness ==
    /\ spc = "returned"
    /\ FirstStop(log) = 3
    /\ sent >= 3
    /\ \E path \in DOMAIN files : Len(DataRows(files, path)) = 1

\* the Stop was dispatched while the receiver held the datagram delivered
\* after it
C37_WitnessRace ==
    /\ FirstStop(log) = 2
    /\ Len(log) = 2
    /\ rbuf # <<>>
    /\ stopping

\* C38: when the signal handler has set the stop flag while the processor
\* is blocked in recv on the empty channel, the processor thread ends (the
\* threads being scheduled fairly).
C38_BlockedProcessorTerminates ==
    (hpc = "send" /\ stopping /\ ppc = "process" /\ channel = <<>>)
        ~> (ppc = "done")

\* the two ways of C38: the blocked processor is woken in two ways only: by a datagram the
\* receiver has forwarded, or by the error of recv after the receiver has
\* ended and dropped the sender; woken with the flag set, it leaves its loop
\* at the next check.
BlockedProcessorWoken ==
    [][ /\ (ppc = "process" /\ ppc' # "process")
            => /\ ppc' = "check"
               /\ \/ channel # <<>> /\ channel' = Tail(channel)
                  \/ channel = <<>> /\ rpc = "done" /\ channel' = channel
        /\ (ppc = "check" /\ stopping /\ ppc' # ppc) => ppc' = "drain"
    ]_vars

\* a signal ended the daemon and no Stop was dispatched: the receiver saw
\* the flag and ended first, the blocked recv of the processor failed
C38_Witness ==
    /\ signals # <<>>
    /\ ppc = "done"
    /\ log = <<>>
    /\ \A i \in DOMAIN Unread : decode(Unread[i]).message.type # "Stop"

\* a signal ended the daemon and the self-Stop of the handler, forwarded by
\* the receiver, woke the processor
C38_WitnessSelfStop ==
    /\ signals # <<>>
    /\ ppc = "done"
    /\ sent = 0
    /\ Len(log) = 1
    /\ log[1].message.type = "Stop"

\* C39: the stop flag is false when the daemon starts; it goes from false
\* to true only where the signal handler stores it or where the processor
\* dispatches a Stop; and no step of receiver, processor, run(), signal
\* handler or client takes it back from true to false.
C39_StopFlagMonotonic ==
    /\ ~stopping
    /\ [][ /\ stopping => stopping'
           /\ (~stopping /\ stopping')
                => \/ hpc = "store" /\ hpc' = "send"
                   \/ Dispatched /\ Now.message.type = "Stop"
       ]_vars

\* the handler has set the flag, the processor has dispatched a message
\* other than Stop afterwards, both threads have ended and run() has
\* returned, and the flag is still set
C39_Witness ==
    /\ stopping
    /\ spc = "returned"
    /\ signals # <<>>
    /\ \E i \in DOMAIN log :
        /\ log[i].message.type = "CommandStart"
        /\ log[i].message.data.time_stamp > signals[1]

\* the flag was set by the processor, no signal came
C39_WitnessProcessor ==
    /\ stopping
    /\ spc = "returned"
    /\ signals = <<>>

\* the record of the session in a tree, None if there is none
TreeValue(tree, uuid) ==
    IF serialize_uuid(uuid) \in DOMAIN tree
    THEN <<tree[serialize_uuid(uuid)]>>
    ELSE <<>>

\* C40: frame conditions of the handlers.  Dispatching a CommandStart or a
\* CommandFinished leaves the disabled set as it is; dispatching an Enable
\* leaves the pending starts and the index as they are; dispatching a
\* CommandStart, Disable, Enable or Stop leaves the index as it is; and
\* dispatching a message of session S leaves every other session T as it
\* is: pending or not, with the same pending start, disabled or not.  A
\* Stop changes neither tree.
C40_HandlerFrames ==
    [][Dispatched =>
        /\ Now.message.type \in {"CommandStart", "CommandFinished"}
            => disabled_sessions' = disabled_sessions
        /\ Now.message.type = "Enable"
            => entries' = entries /\ files' = files
        /\ Now.message.type \in {"CommandStart", "Disable", "Enable", "Stop"}
            => files' = files
        /\ Now.message.type = "Stop"
            => entries' = entries /\ disabled_sessions' = disabled_sessions
        /\ \A uuid \in Sessions : \A other \in Sessions \ {uuid} :
            SessionOf(Now.message) = uuid
            => /\ Pending(other)' = Pending(other)
               /\ Disabled(other)' = Disabled(other)
               /\ TreeValue(entries', other) = TreeValue(entries, other)
               /\ TreeValue(disabled_sessions', other)
                    = TreeValue(disabled_sessions, other)
    ]_vars

\* one session was disabled and stays disabled while the other session is
\* started, enabled and finished, with its entry written
C40_Witness ==
    \E uuid \in Sessions : \E other \in Sessions \ {uuid} :
        /\ Len(log) = 4
        /\ IsAccepted(log[1], "Disable", uuid) \/ log[1].err = "EntryNotExist"
        /\ log[1].message.type = "Disable"
        /\ SessionOf(log[1].message) = uuid
        /\ IsAccepted(log[2], "CommandStart", other)
        /\ IsAccepted(log[3], "Enable", other)
        /\ IsAccepted(log[4], "CommandFinished", other)
        /\ Disabled(uuid)
        /\ AllEntries(files) # {}

\* one session is pending and stays pending while the other session is
\* disabled, enabled and the daemon is stopped
C40_WitnessPending ==
    \E uuid \in Sessions : \E other \in Sessions \ {uuid} :
        /\ Len(log) = 4
        /\ IsAccepted(log[1], "CommandStart", uuid)
        /\ log[2].message.type = "Disable"
        /\ SessionOf(log[2].message) = other
        /\ IsAccepted(log[3], "Enable", other)
        /\ log[4].message.type = "Stop"
        /\ Pending(uuid)
        /\ ~Disabled(other)

============================================================================
